---- MODULE Spec2Model ----
(***************************************************************************)
(* A model of the crystal-ls analysis core: the tokenizer (lexer.go), the  *)
(* structural parser, the diagnostics engine, the completion engine and    *)
(* the position queries of the analyzer.                                   *)
(*                                                                         *)
(* Text is modelled as a sequence of one-character strings; Go's 0-based   *)
(* byte indexing s[i] and slicing s[a:b] are At(s, i) and Slice(s, a, b).  *)
(* A document is held as the list of its lines, which is what              *)
(* strings.Split(doc.Text, "\n") returns and determines the text.          *)
(***************************************************************************)
EXTENDS Integers, Sequences, FiniteSets, TLC

VARIABLES
  lexer,     \* the CrystalLexer struct: text, position, line, column, tokens
  lexpc,     \* where Tokenize is: "new", "scan" or "done"
  balance,   \* the locals of checkStructureBalance: lines, lineNum, stack,
             \* diagnostics, and pc ("scan", "done")
  refs,      \* the locals of a running GetReferences / GetDocumentHighlights
  parser,    \* the locals of a running parseDocumentStructure
  analyzer,  \* the CrystalAnalyzer struct: its per-document fields
  call,      \* the request being served by the analyzer and its result
  server     \* the Server struct: its documents, and the message it is
             \* handling and what it has sent for it

vars == <<lexer, lexpc, balance, refs, parser, analyzer, call, server>>
exceptLexer == <<balance, refs, parser, analyzer, call, server>>
exceptBalance == <<lexer, lexpc, refs, parser, analyzer, call, server>>
exceptRefs == <<lexer, lexpc, balance, parser, analyzer, call, server>>
exceptParser == <<lexer, lexpc, balance, refs, analyzer, call, server>>
exceptAnalyzer == <<lexer, lexpc, balance, refs, parser, server>>

\* The value of each component while another component runs.
LexerOff == lexer = <<>> /\ lexpc = "off"
BalanceOff == balance = [pc |-> "off"]
RefsOff == refs = [pc |-> "off"]
ParserOff == parser = [pc |-> "off"]
AnalyzerOff == analyzer = <<>> /\ call = [op |-> "off"]
ServerOff == server = [pc |-> "off"]

----------------------------------------------------------------------------
(* Characters and strings *)

Digits == {"0","1","2","3","4","5","6","7","8","9"}
LowerLetters ==
  {"a","b","c","d","e","f","g","h","i","j","k","l","m",
   "n","o","p","q","r","s","t","u","v","w","x","y","z"}
UpperLetters ==
  {"A","B","C","D","E","F","G","H","I","J","K","L","M",
   "N","O","P","Q","R","S","T","U","V","W","X","Y","Z"}

At(s, i) == s[i + 1]
Slice(s, from, to) == SubSeq(s, from + 1, to)

isDigit(ch) == ch \in Digits
isLetter(ch) == ch \in LowerLetters \/ ch \in UpperLetters
isAlphaNumeric(ch) == isLetter(ch) \/ isDigit(ch)
isUppercase(ch) == ch \in UpperLetters
operators ==
  {"+","-","*","/","%","=","<",">","!","&","|","^","~",".",",",":",";",
   "(",")","[","]","{","}","@"}
isOperator(ch) == ch \in operators

keywords ==
  << <<"a","b","s","t","r","a","c","t">>, <<"a","l","i","a","s">>, <<"a","n","d">>, <<"a","s">>, 
     <<"b","e","g","i","n">>, <<"b","r","e","a","k">>, <<"c","a","s","e">>, <<"c","l","a","s","s">>, 
     <<"d","e","f">>, <<"d","o">>, <<"e","l","s","e">>, <<"e","l","s","i","f">>, <<"e","n","d">>, 
     <<"e","n","s","u","r","e">>, <<"e","n","u","m">>, <<"e","x","t","e","n","d">>, 
     <<"f","a","l","s","e">>, <<"f","o","r">>, <<"f","u","n">>, <<"i","f">>, <<"i","n">>, 
     <<"i","n","c","l","u","d","e">>, <<"i","n","s","t","a","n","c","e","_","s","i","z","e","o","f">>, 
     <<"i","s","_","a","?">>, <<"l","i","b">>, <<"m","a","c","r","o">>, <<"m","o","d","u","l","e">>, 
     <<"n","e","x","t">>, <<"n","i","l">>, <<"n","o","t">>, <<"o","f">>, <<"o","r">>, <<"o","u","t">>, 
     <<"p","o","i","n","t","e","r","o","f">>, <<"p","r","i","v","a","t","e">>, 
     <<"p","r","o","t","e","c","t","e","d">>, <<"r","e","s","c","u","e">>, <<"r","e","t","u","r","n">>, 
     <<"r","e","q","u","i","r","e">>, <<"s","e","l","e","c","t">>, <<"s","e","l","f">>, 
     <<"s","i","z","e","o","f">>, <<"s","t","r","u","c","t">>, <<"s","u","p","e","r">>, 
     <<"t","h","e","n">>, <<"t","r","u","e">>, <<"t","y","p","e">>, <<"t","y","p","e","o","f">>, 
     <<"u","n","i","o","n">>, <<"u","n","l","e","s","s">>, <<"u","n","t","i","l">>, <<"w","h","e","n">>, 
     <<"w","h","i","l","e">>, <<"w","i","t","h">>, <<"y","i","e","l","d">>, <<"p","u","t","s">>, 
     <<"p","r","i","n","t">>, <<"p">>, <<"p","p">>, <<"g","e","t","s">> >>
Range(s) == {s[i] : i \in 1..Len(s)}

----------------------------------------------------------------------------
(* The tokenizer, lexer.go *)

NewCrystalLexer(t) ==
  [text |-> t, position |-> 0, line |-> 0, column |-> 0, tokens |-> <<>>]

advance(l) ==
  IF l.position < Len(l.text)
  THEN [l EXCEPT !.position = @ + 1, !.column = @ + 1]
  ELSE l

addToken(l, tokenType, value, startCol, length) ==
  [l EXCEPT !.tokens = Append(@,
     [Type |-> tokenType, Value |-> value,
      Position |-> [Line |-> l.line, Character |-> startCol],
      Length |-> length])]

RECURSIVE skipWhitespace(_)
skipWhitespace(l) ==
  IF l.position < Len(l.text)
  THEN LET ch == At(l.text, l.position) IN
       IF ch = " " \/ ch = "\t" \/ ch = "\r"
       THEN skipWhitespace(advance(l))
       ELSE IF ch = "\n"
       THEN skipWhitespace([l EXCEPT !.line = @ + 1, !.column = 0,
                                     !.position = @ + 1])
       ELSE l
  ELSE l

readComment(l) ==
  LET RECURSIVE loop(_)
      loop(c) ==
        IF c.position < Len(c.text) /\ At(c.text, c.position) # "\n"
        THEN loop(advance(c))
        ELSE c
      start == l.position
      startCol == l.column
      m == loop(l)
      value == Slice(m.text, start, m.position)
  IN addToken(m, "Comment", value, startCol, Len(value))

readString(l) ==
  LET start == l.position
      startCol == l.column
      quote == At(l.text, l.position)
      RECURSIVE loop(_)
      loop(c) ==
        IF c.position < Len(c.text)
        THEN LET ch == At(c.text, c.position) IN
             IF ch = quote
             THEN advance(c)
             ELSE IF ch = "\\" /\ c.position + 1 < Len(c.text)
                  THEN loop(advance(advance(c)))
                  ELSE loop(advance(c))
        ELSE c
      m == loop(advance(l))
      value == Slice(m.text, start, m.position)
  IN addToken(m, "String", value, startCol, Len(value))

readNumber(l) ==
  LET RECURSIVE loop(_)
      loop(c) ==
        IF c.position < Len(c.text)
           /\ (isDigit(At(c.text, c.position)) \/ At(c.text, c.position) = ".")
        THEN loop(advance(c))
        ELSE c
      start == l.position
      startCol == l.column
      m == loop(l)
      value == Slice(m.text, start, m.position)
  IN addToken(m, "Number", value, startCol, Len(value))

readIdentifierOrKeyword_NoKeywords(l) ==
  LET RECURSIVE loop(_)
      loop(c) ==
        IF c.position < Len(c.text)
           /\ (isAlphaNumeric(At(c.text, c.position))
               \/ At(c.text, c.position) \in {"_", "?", "!"})
        THEN loop(advance(c))
        ELSE c
      start == l.position
      startCol == l.column
      m == loop(l)
      value == Slice(m.text, start, m.position)
      t1 == "Identifier"
      tokenType == IF Len(value) > 0 /\ isUppercase(value[1])
                   THEN "Constant" ELSE t1
  IN addToken(m, tokenType, value, startCol, Len(value))

readIdentifierOrKeyword(l) ==
  LET RECURSIVE loop(_)
      loop(c) ==
        IF c.position < Len(c.text)
           /\ (isAlphaNumeric(At(c.text, c.position))
               \/ At(c.text, c.position) \in {"_", "?", "!"})
        THEN loop(advance(c))
        ELSE c
      start == l.position
      startCol == l.column
      m == loop(l)
      value == Slice(m.text, start, m.position)
      t1 == IF value \in Range(keywords) THEN "Keyword" ELSE "Identifier"
      tokenType == IF Len(value) > 0 /\ isUppercase(value[1])
                   THEN "Constant" ELSE t1
  IN addToken(m, tokenType, value, startCol, Len(value))

readOperator_ValueBeforeAdvance(l) ==
  LET start == l.position
      startCol == l.column
      value == Slice(l.text, start, l.position)
  IN addToken(advance(l), "Operator", value, startCol, Len(value))

readOperator(l) ==
  LET start == l.position
      startCol == l.column
      m == advance(l)
      value == Slice(m.text, start, m.position)
  IN addToken(m, "Operator", value, startCol, Len(value))

readSymbol(l) ==
  LET RECURSIVE loop(_)
      loop(c) ==
        IF c.position < Len(c.text)
           /\ (isAlphaNumeric(At(c.text, c.position)) \/ At(c.text, c.position) = "_")
        THEN loop(advance(c))
        ELSE c
      start == l.position
      startCol == l.column
      m == loop(advance(l))
      value == Slice(m.text, start, m.position)
  IN addToken(m, "Symbol", value, startCol, Len(value))

TokenizeIteration_SymbolFirst(l) ==
  LET m == skipWhitespace(l) IN
  IF m.position >= Len(m.text) THEN m
  ELSE LET ch == At(m.text, m.position) IN
       IF ch = "#" THEN readComment(m)
       ELSE IF ch = "\"" \/ ch = "'" THEN readString(m)
       ELSE IF isDigit(ch) THEN readNumber(m)
       ELSE IF isLetter(ch) \/ ch = "_" THEN readIdentifierOrKeyword(m)
       ELSE IF ch = ":" THEN readSymbol(m)
       ELSE IF isOperator(ch) THEN readOperator(m)
       ELSE advance(m)

\* One iteration of the scan loop of Tokenize: skip whitespace, then, unless
\* the input is exhausted, dispatch on the current character.
TokenizeIteration(l) ==
  LET m == skipWhitespace(l) IN
  IF m.position >= Len(m.text) THEN m
  ELSE LET ch == At(m.text, m.position) IN
       IF ch = "#" THEN readComment(m)
       ELSE IF ch = "\"" \/ ch = "'" THEN readString(m)
       ELSE IF isDigit(ch) THEN readNumber(m)
       ELSE IF isLetter(ch) \/ ch = "_" THEN readIdentifierOrKeyword(m)
       ELSE IF isOperator(ch) THEN readOperator(m)
       ELSE IF ch = ":" THEN readSymbol(m)
       ELSE advance(m)

\* Tokenize resets the scan state of the lexer.
TokenizeBegin ==
  /\ lexpc = "new"
  /\ lexer' = [lexer EXCEPT !.tokens = <<>>, !.position = 0,
                            !.line = 0, !.column = 0]
  /\ lexpc' = "scan"
  /\ UNCHANGED exceptLexer

TokenizeStep ==
  /\ lexpc = "scan"
  /\ lexer.position < Len(lexer.text)
  /\ lexer' = TokenizeIteration(lexer)
  /\ lexpc' = "scan"
  /\ UNCHANGED exceptLexer

TokenizeReturn ==
  /\ lexpc = "scan"
  /\ ~(lexer.position < Len(lexer.text))
  /\ lexpc' = "done"
  /\ UNCHANGED <<lexer, exceptLexer>>

MaxTextLen == 3
LexAlphabet ==
  {"#", "\"", "'", "\\", "1", ".", "p", "A", "_", "?", "+", ":", " ", "\n", "$"}
LexTexts == UNION {[1..n -> LexAlphabet] : n \in 0..MaxTextLen}

InitLexer ==
  /\ lexer \in {NewCrystalLexer(t) : t \in LexTexts}
  /\ lexpc = "new"
  /\ BalanceOff /\ RefsOff /\ ParserOff /\ AnalyzerOff /\ ServerOff

NextLexer == TokenizeBegin \/ TokenizeStep \/ TokenizeReturn

SpecLexer == InitLexer /\ [][NextLexer]_vars

----------------------------------------------------------------------------
(* Tokenizer totality *)

IsWhitespaceRun(s) == \A i \in 1..Len(s) : s[i] \in {" ", "\t", "\r", "\n"}

\* The characters consumed by one scan iteration are a run of skipped
\* whitespace followed by either the span of exactly one new token or at
\* most one skipped character.
StepCovers ==
  LET consumed == Slice(lexer.text, lexer.position, lexer'.position)
      n == Len(lexer.tokens)
  IN \E k \in 0..Len(consumed) :
       /\ IsWhitespaceRun(SubSeq(consumed, 1, k))
       /\ LET rest == SubSeq(consumed, k + 1, Len(consumed)) IN
          \/ /\ lexer'.tokens = lexer.tokens
             /\ Len(rest) <= 1
          \/ /\ Len(lexer'.tokens) = n + 1
             /\ SubSeq(lexer'.tokens, 1, n) = lexer.tokens
             /\ lexer'.tokens[n + 1].Value = rest
             /\ lexer'.tokens[n + 1].Length = Len(rest)
             /\ Len(rest) >= 1

\* C1: Tokenize terminates on every finite text: every scan iteration moves
\* the scan position forward by at least one character and never past the
\* end, the characters it consumes are each either skipped or inside the span
\* of the one token it emits, and Tokenize returns only once the position has
\* reached the end of the text.
C1_TokenizerTotality ==
  [][ lexpc = "scan" =>
        /\ lexpc' = "scan" => /\ lexer'.position > lexer.position
                              /\ lexer'.position <= Len(lexer.text)
                              /\ lexer'.text = lexer.text
                              /\ StepCovers
        /\ lexpc' = "done" => lexer'.position = Len(lexer.text) ]_vars

\* A finished scan that skipped a character and read a string with an escape.
C1_Witness ==
  /\ lexpc = "done"
  /\ \E i \in 1..Len(lexer.tokens) :
       /\ lexer.tokens[i].Type = "String"
       /\ "\\" \in Range(lexer.tokens[i].Value)
       /\ lexer.tokens[i].Length < Len(lexer.text)

----------------------------------------------------------------------------
(* The block-balance check of the diagnostics engine *)

openingKeywords ==
  << <<"c","l","a","s","s">>, <<"d","e","f">>, <<"i","f">>, <<"w","h","i","l","e">>, <<"c","a","s","e">>, 
     <<"b","e","g","i","n">>, <<"m","o","d","u","l","e">>, <<"u","n","l","e","s","s">>, <<"f","o","r">> >>

\* \w of the regular expressions
isRegexWordChar(ch) == isAlphaNumeric(ch) \/ ch = "_"

\* regexp `\bw\b`.MatchString(line), for a word w of \w characters
matchWord(line, w) ==
  \E i \in 0..(Len(line) - Len(w)) :
    /\ Slice(line, i, i + Len(w)) = w
    /\ (i = 0 \/ ~isRegexWordChar(At(line, i - 1)))
    /\ (i + Len(w) = Len(line) \/ ~isRegexWordChar(At(line, i + Len(w))))

LineRange(lineNum, line) ==
  [Start |-> [Line |-> lineNum, Character |-> 0],
   End |-> [Line |-> lineNum, Character |-> Len(line)]]

pushOpeners_FirstOnly(stack, line, lineNum) ==
  IF \E k \in 1..Len(openingKeywords) : matchWord(line, openingKeywords[k])
  THEN LET k == CHOOSE k \in 1..Len(openingKeywords) :
                  /\ matchWord(line, openingKeywords[k])
                  /\ \A j \in 1..(k - 1) : ~matchWord(line, openingKeywords[j])
       IN Append(stack, [keyword |-> openingKeywords[k], line |-> lineNum])
  ELSE stack

\* the loop over openingKeywords: every keyword found on the line is pushed
pushOpeners(stack, line, lineNum) ==
  LET RECURSIVE loop(_, _)
      loop(st, k) ==
        IF k > Len(openingKeywords) THEN st
        ELSE IF matchWord(line, openingKeywords[k])
             THEN loop(Append(st, [keyword |-> openingKeywords[k],
                                   line |-> lineNum]), k + 1)
             ELSE loop(st, k + 1)
  IN loop(stack, 1)

popEnd_Oldest(b, line, lineNum) ==
  IF matchWord(line, <<"e","n","d">>)
  THEN IF Len(b.stack) = 0
       THEN [b EXCEPT !.diagnostics = Append(@,
               [Range |-> LineRange(lineNum, line), Severity |-> "Error",
                Message |-> [kind |-> "UnexpectedEnd"]])]
       ELSE [b EXCEPT !.stack = Tail(@)]
  ELSE b

\* the `end` part of the loop body: pop, or report an unexpected end
popEnd(b, line, lineNum) ==
  IF matchWord(line, <<"e","n","d">>)
  THEN IF Len(b.stack) = 0
       THEN [b EXCEPT !.diagnostics = Append(@,
               [Range |-> LineRange(lineNum, line), Severity |-> "Error",
                Message |-> [kind |-> "UnexpectedEnd"]])]
       ELSE [b EXCEPT !.stack = SubSeq(@, 1, Len(@) - 1)]
  ELSE b

\* the diagnostics for the entries left on the stack
unclosedDiagnostics(lines, stack) ==
  [i \in 1..Len(stack) |->
     [Range |-> LineRange(stack[i].line, lines[stack[i].line + 1]),
      Severity |-> "Error",
      Message |-> [kind |-> "Unclosed", keyword |-> stack[i].keyword]]]

\* one iteration of the line loop
balanceLine(b) ==
  LET line == b.lines[b.lineNum + 1]
      pushed == [b EXCEPT !.stack = pushOpeners(@, line, b.lineNum)]
  IN [popEnd(pushed, line, b.lineNum) EXCEPT !.lineNum = @ + 1]

\* the locals of checkStructureBalance on entry
balanceStart(lines) ==
  [lines |-> lines, lineNum |-> 0, stack |-> <<>>, diagnostics |-> <<>>,
   pc |-> "scan"]

\* the diagnostics checkStructureBalance returns
checkStructureBalance(lines) ==
  LET RECURSIVE run(_)
      run(b) == IF b.lineNum < Len(lines) THEN run(balanceLine(b))
                ELSE b.diagnostics \o unclosedDiagnostics(lines, b.stack)
  IN run(balanceStart(lines))

BalanceLine ==
  /\ balance.pc = "scan"
  /\ balance.lineNum < Len(balance.lines)
  /\ balance' = balanceLine(balance)
  /\ UNCHANGED exceptBalance

BalanceFinish ==
  /\ balance.pc = "scan"
  /\ balance.lineNum = Len(balance.lines)
  /\ balance' = [balance EXCEPT
       !.diagnostics = @ \o unclosedDiagnostics(balance.lines, balance.stack),
       !.pc = "done"]
  /\ UNCHANGED exceptBalance

MaxBalanceLines == 4
BalanceLineVocabulary ==
  { <<"i","f"," ","x">>, <<"e","n","d">>, <<"c","l","a","s","s"," ","A">>,
    <<"d","e","f"," ","f">>, <<"x">>, <<"e","n","d","_","x">>,
    <<"i","f"," ","x"," ","e","n","d">>, <<"e","n","d"," ","e","n","d">>,
    <<"b","e","g","i","n"," ","i","f"," ","x">> }
BalanceDocuments ==
  UNION {[1..n -> BalanceLineVocabulary] : n \in 1..MaxBalanceLines}

InitBalance ==
  /\ balance \in {balanceStart(d) : d \in BalanceDocuments}
  /\ LexerOff /\ RefsOff /\ ParserOff /\ AnalyzerOff /\ ServerOff

NextBalance == BalanceLine \/ BalanceFinish

SpecBalance == InitBalance /\ [][NextBalance]_vars

----------------------------------------------------------------------------
(* Balance properties.  The expected diagnostics are characterised from the *)
(* text alone, without a stack: the words of a line are its maximal runs of *)
(* word characters, each opener keyword found on a line is one opening      *)
(* event and a line holding `end` is one closing event.                     *)

WordRuns(line) ==
  LET starts == { a \in 0..(Len(line) - 1) :
                    /\ isRegexWordChar(At(line, a))
                    /\ (a = 0 \/ ~isRegexWordChar(At(line, a - 1))) }
      stop(a) == CHOOSE b \in (a + 1)..Len(line) :
                    /\ \A i \in a..(b - 1) : isRegexWordChar(At(line, i))
                    /\ (b = Len(line) \/ ~isRegexWordChar(At(line, b)))
  IN { Slice(line, a, stop(a)) : a \in starts }

\* The events of lines: ord orders the events of one line as the check
\* takes them, the openers in keyword-list order and then the `end`.
OpenEvents(lines) ==
  UNION { LET words == WordRuns(lines[n + 1]) IN
          { [line |-> n, ord |-> k, keyword |-> openingKeywords[k]] :
              k \in { j \in 1..Len(openingKeywords) : openingKeywords[j] \in words } }
          : n \in 0..(Len(lines) - 1) }
EndEvents(lines) ==
  { [line |-> n, ord |-> Len(openingKeywords) + 1, keyword |-> <<"e","n","d">>] :
      n \in { m \in 0..(Len(lines) - 1) : <<"e","n","d">> \in WordRuns(lines[m + 1]) } }
Before(e, f) == e.line < f.line \/ (e.line = f.line /\ e.ord < f.ord)

\* Among the opening events O and closing events E: an `end` is unexpected
\* when no stretch of events ending just before it holds more openers than
\* ends; an opener is unclosed when no stretch of events starting just after
\* it holds more ends than openers.
UnexpectedEnds(O, E) ==
  { j \in E :
      \A i \in O \cup E :
        Before(i, j) =>
          Cardinality({e \in O : ~Before(e, i) /\ Before(e, j)})
            <= Cardinality({e \in E : ~Before(e, i) /\ Before(e, j)}) }
UnclosedOpeners(O, E) ==
  { i \in O :
      \A j \in E :
        Before(i, j) =>
          Cardinality({e \in E : Before(i, e) /\ ~Before(j, e)})
            <= Cardinality({e \in O : Before(i, e) /\ ~Before(j, e)}) }

\* The events of a set in the order of the text.
RECURSIVE InTextOrder(_)
InTextOrder(S) ==
  IF S = {} THEN <<>>
  ELSE LET first == CHOOSE e \in S : \A f \in S : f = e \/ Before(e, f)
       IN <<first>> \o InTextOrder(S \ {first})

CountKind(diagnostics, kind) ==
  Cardinality({i \in 1..Len(diagnostics) : diagnostics[i].Message.kind = kind})

\* C4: when the balance check has run, (unclosed diagnostics) minus
\* (unexpected-end diagnostics) equals (opener pushes: one for every opener
\* keyword standing on a line) minus (`end` keywords processed: one for
\* every line holding a standalone `end`); and the number of these Error
\* diagnostics equals the absolute difference of the two counts exactly
\* when the document does not produce both kinds of diagnostic.
C4_BalanceCounts ==
  balance.pc = "done" =>
    LET unclosed == CountKind(balance.diagnostics, "Unclosed")
        unexpected == CountKind(balance.diagnostics, "UnexpectedEnd")
        opens == Cardinality(OpenEvents(balance.lines))
        ends == Cardinality(EndEvents(balance.lines))
        absdiff == IF opens >= ends THEN opens - ends ELSE ends - opens
    IN /\ unclosed - unexpected = opens - ends
       /\ unclosed + unexpected = Len(balance.diagnostics)
       /\ \A i \in 1..Len(balance.diagnostics) :
            balance.diagnostics[i].Severity = "Error"
       /\ (unclosed + unexpected = absdiff) <=> ~(unclosed > 0 /\ unexpected > 0)

\* A finished check that produced both kinds of diagnostic.
C4_Witness ==
  /\ balance.pc = "done"
  /\ CountKind(balance.diagnostics, "Unclosed") > 0
  /\ CountKind(balance.diagnostics, "UnexpectedEnd") > 0

ExpectedDiagnostic(lines, e) ==
  [Range |-> LineRange(e.line, lines[e.line + 1]), Severity |-> "Error",
   Message |-> IF e.ord > Len(openingKeywords)
               THEN [kind |-> "UnexpectedEnd"]
               ELSE [kind |-> "Unclosed", keyword |-> e.keyword]]

----------------------------------------------------------------------------
(* Regular-expression pieces used by the analyzer's patterns *)

\* \s of Go's regexp
isSpace(c) == c \in {" ", "\t", "\n", "\r", "\f"}

\* the index after a greedy \s* starting at i
skipSpaces(line, i) ==
  LET RECURSIVE loop(_)
      loop(k) == IF k < Len(line) /\ isSpace(At(line, k)) THEN loop(k + 1) ELSE k
  IN loop(i)

\* the index after a greedy \w* starting at i
skipWord(line, i) ==
  LET RECURSIVE loop(_)
      loop(k) == IF k < Len(line) /\ isRegexWordChar(At(line, k))
                 THEN loop(k + 1) ELSE k
  IN loop(i)

\* the literal lit stands at index i of line
hasPrefixAt(line, i, lit) ==
  /\ i + Len(lit) <= Len(line)
  /\ Slice(line, i, i + Len(lit)) = lit

\* \b holds between index p - 1 and index p of line
wordBoundary(line, p) ==
  LET before == p > 0 /\ isRegexWordChar(At(line, p - 1))
      after == p < Len(line) /\ isRegexWordChar(At(line, p))
  IN before # after

\* strings.Index(line[from:], w)
Index(line, from, w) ==
  LET found == { k \in 0..(Len(line) - from - Len(w)) :
                   hasPrefixAt(line, from + k, w) }
  IN IF found = {} THEN -1
     ELSE CHOOSE k \in found : \A j \in found : k <= j

----------------------------------------------------------------------------
(* GetReferences and GetDocumentHighlights (analyzer.go) *)

isWordChar(c) ==
  c \in LowerLetters \cup UpperLetters \cup Digits \cup {"_", "?", "!"}

getWordAtPosition_ClampToLength(line, char) ==
  IF Len(line) = 0 \/ char < 0 THEN <<>>
  ELSE LET c == IF char >= Len(line) THEN Len(line) ELSE char
           RECURSIVE back(_)
           back(s) == IF s > 0 /\ isWordChar(At(line, s - 1))
                      THEN back(s - 1) ELSE s
           RECURSIVE forth(_)
           forth(n) == IF n < Len(line) /\ isWordChar(At(line, n))
                       THEN forth(n + 1) ELSE n
           start == back(c)
           end == forth(c)
       IN IF start >= end THEN <<>> ELSE Slice(line, start, end)

getWordAtPosition(line, char) ==
  IF Len(line) = 0 \/ char < 0 THEN <<>>
  ELSE LET c == IF char >= Len(line) THEN Len(line) - 1 ELSE char
           RECURSIVE back(_)
           back(s) == IF s > 0 /\ isWordChar(At(line, s - 1))
                      THEN back(s - 1) ELSE s
           RECURSIVE forth(_)
           forth(n) == IF n < Len(line) /\ isWordChar(At(line, n))
                       THEN forth(n + 1) ELSE n
           start == back(c)
           end == forth(c)
       IN IF start >= end THEN <<>> ELSE Slice(line, start, end)

\* ^\s*(class|def|module)\s+ QuoteMeta(word) \b  matches line
matchDeclarationOf(line, word) ==
  LET a == skipSpaces(line, 0)
  IN \E kw \in { <<"c","l","a","s","s">>, <<"d","e","f">>,
                 <<"m","o","d","u","l","e">> } :
       /\ hasPrefixAt(line, a, kw)
       /\ LET b == a + Len(kw)
              c == skipSpaces(line, b)
          IN /\ c > b
             /\ hasPrefixAt(line, c, word)
             /\ wordBoundary(line, c + Len(word))

\* \b QuoteMeta(word) \s*=  matches line
matchAssignmentOf(line, word) ==
  \E i \in 0..Len(line) :
    /\ wordBoundary(line, i)
    /\ hasPrefixAt(line, i, word)
    /\ LET j == skipSpaces(line, i + Len(word))
       IN j < Len(line) /\ At(line, j) = "="

\* the whole-word test of an occurrence of word at actualIndex
isWholeWord(line, actualIndex, word) ==
  /\ ~(actualIndex > 0 /\ isWordChar(At(line, actualIndex - 1)))
  /\ ~(/\ actualIndex + Len(word) < Len(line)
       /\ isWordChar(At(line, actualIndex + Len(word))))

WordRange_OneBeyond(lineNum, actualIndex, word) ==
  [Start |-> [Line |-> lineNum, Character |-> actualIndex],
   End |-> [Line |-> lineNum, Character |-> actualIndex + Len(word) + 1]]

WordRange(lineNum, actualIndex, word) ==
  [Start |-> [Line |-> lineNum, Character |-> actualIndex],
   End |-> [Line |-> lineNum, Character |-> actualIndex + Len(word)]]

\* one iteration of the inner search loop of GetReferences
referencesIteration(r) ==
  LET line == r.lines[r.lineNum + 1]
      foundIndex == Index(line, r.index, r.word)
      actualIndex == r.index + foundIndex
      isDeclaration == \/ matchDeclarationOf(line, r.word)
                       \/ matchAssignmentOf(line, r.word)
  IN IF foundIndex = -1
     THEN [r EXCEPT !.lineNum = @ + 1, !.index = 0]
     ELSE [r EXCEPT
             !.index = actualIndex + Len(r.word),
             !.locations =
               IF /\ isWholeWord(line, actualIndex, r.word)
                  /\ (r.includeDeclaration \/ ~isDeclaration)
               THEN Append(@, [Range |-> WordRange(r.lineNum, actualIndex, r.word)])
               ELSE @]

\* one iteration of the inner search loop of GetDocumentHighlights
highlightsIteration(r) ==
  LET line == r.lines[r.lineNum + 1]
      foundIndex == Index(line, r.index, r.word)
      actualIndex == r.index + foundIndex
      kind == IF matchDeclarationOf(line, r.word) THEN "Write"
              ELSE IF matchAssignmentOf(line, r.word) THEN "Write"
              ELSE "Read"
  IN IF foundIndex = -1
     THEN [r EXCEPT !.lineNum = @ + 1, !.index = 0]
     ELSE [r EXCEPT
             !.index = actualIndex + Len(r.word),
             !.locations =
               IF isWholeWord(line, actualIndex, r.word)
               THEN Append(@, [Range |-> WordRange(r.lineNum, actualIndex, r.word),
                               Kind |-> kind])
               ELSE @]

searchIteration(r) ==
  IF r.op = "references" THEN referencesIteration(r) ELSE highlightsIteration(r)

MaxLocations == 8

\* entry of either operation: the line check and the word under the cursor
SearchEnter ==
  /\ refs.pc = "call"
  /\ refs' = IF refs.pos.Line >= Len(refs.lines)
             THEN [refs EXCEPT !.pc = "done"]
             ELSE [refs EXCEPT
                     !.word = getWordAtPosition(refs.lines[refs.pos.Line + 1],
                                                refs.pos.Character),
                     !.pc = "scan"]
  /\ UNCHANGED exceptRefs

ReferencesIterate ==
  /\ refs.pc = "scan" /\ refs.op = "references"
  /\ refs.lineNum < Len(refs.lines)
  /\ Len(refs.locations) < MaxLocations
  /\ refs' = referencesIteration(refs)
  /\ UNCHANGED exceptRefs

HighlightsIterate ==
  /\ refs.pc = "scan" /\ refs.op = "documentHighlights"
  /\ refs.lineNum < Len(refs.lines)
  /\ Len(refs.locations) < MaxLocations
  /\ refs' = highlightsIteration(refs)
  /\ UNCHANGED exceptRefs

SearchReturn ==
  /\ refs.pc = "scan"
  /\ refs.lineNum = Len(refs.lines)
  /\ refs' = [refs EXCEPT !.pc = "done"]
  /\ UNCHANGED exceptRefs

MaxRefLines == 2
MaxRefChar == 5
RefLineVocabulary ==
  { <<>>, <<"a">>, <<"a","a"," ","a">>, <<"d","e","f"," ","a">>,
    <<"a"," ","="," ","a","?">>, <<" "," ","a">> }
RefDocuments == UNION {[1..n -> RefLineVocabulary] : n \in 1..MaxRefLines}

InitRefs ==
  /\ refs \in { [op |-> o[1], includeDeclaration |-> o[2], lines |-> d,
                 pos |-> [Line |-> l, Character |-> c], word |-> <<>>,
                 lineNum |-> 0, index |-> 0, locations |-> <<>>, pc |-> "call"] :
                o \in { <<"references", TRUE>>, <<"references", FALSE>>,
                        <<"documentHighlights", TRUE>> },
                d \in RefDocuments, l \in 0..MaxRefLines, c \in 0..MaxRefChar }
  /\ LexerOff /\ BalanceOff /\ ParserOff /\ AnalyzerOff /\ ServerOff

NextRefs == SearchEnter \/ ReferencesIterate \/ HighlightsIterate \/ SearchReturn

SpecRefs == InitRefs /\ [][NextRefs]_vars

\* C2: for every document and every position whose line is inside the
\* document, references and documentHighlights terminate with a finite list:
\* every iteration of the search loop moves the search position (line, index)
\* forward, so the loop runs out of text and the call returns.  (An iteration
\* never moves the position back, and the iteration is a function of the
\* position, so an iteration that fails to move it repeats without end.)
C2_SearchTerminates ==
  (refs.pc = "scan" /\ refs.lineNum < Len(refs.lines)) =>
    LET next == searchIteration(refs)
    IN \/ next.lineNum > refs.lineNum
       \/ next.lineNum = refs.lineNum /\ next.index > refs.index

----------------------------------------------------------------------------
(* GetDocumentSymbols (analyzer.go) *)

\* ^\s* kw \s+ (\w+)  or, with suffix, ^\s* kw \s+ (\w+[\?!]?) : the list of
\* the captured name when the pattern matches line, the empty list otherwise
matchKeywordName(line, kw, suffix) ==
  LET a == skipSpaces(line, 0)
      b == a + Len(kw)
      c == skipSpaces(line, b)
      d == skipWord(line, c)
      n == IF suffix /\ d < Len(line) /\ At(line, d) \in {"?", "!"}
           THEN d + 1 ELSE d
  IN IF hasPrefixAt(line, a, kw) /\ c > b /\ d > c
     THEN << Slice(line, c, n) >>
     ELSE <<>>

\* the symbols of the lines from lineNum on
GetDocumentSymbols(lines) ==
  LET symbol(name, kind, lineNum) ==
        [Name |-> name, Kind |-> kind,
         Location |-> [Range |-> LineRange(lineNum, lines[lineNum + 1])]]
      ofKind(kw, suffix, kind, lineNum) ==
        LET match == matchKeywordName(lines[lineNum + 1], kw, suffix)
        IN IF match # <<>> THEN << symbol(match[1], kind, lineNum) >> ELSE <<>>
      RECURSIVE loop(_, _)
      loop(symbols, lineNum) ==
        IF lineNum >= Len(lines) THEN symbols
        ELSE loop(symbols
                    \o ofKind(<<"c","l","a","s","s">>, FALSE, "Class", lineNum)
                    \o ofKind(<<"d","e","f">>, TRUE, "Method", lineNum)
                    \o ofKind(<<"m","o","d","u","l","e">>, FALSE, "Module", lineNum),
                  lineNum + 1)
  IN loop(<<>>, 0)

\* a returned value and a fault (a Go run-time panic) as the outcome of a call
Returned(value) == [value |-> value, fault |-> FALSE]
Faulted == [value |-> <<>>, fault |-> TRUE]

\* a request for op on the document lines
Request(op, lines, pos, includeDeclaration) ==
  [op |-> op, lines |-> lines, pos |-> pos,
   includeDeclaration |-> includeDeclaration, done |-> FALSE,
   result |-> Returned(<<>>)]
NoPosition == [Line |-> 0, Character |-> 0]

\* what NewCrystalAnalyzer leaves in the per-document fields
NewCrystalAnalyzer ==
  [context |-> [Classes |-> <<>>, Variables |-> <<>>],
   documentClasses |-> <<>>, documentMethods |-> <<>>]

DocumentSymbols ==
  /\ call.op = "documentSymbols" /\ ~call.done
  /\ call' = [call EXCEPT !.done = TRUE,
                          !.result = Returned(GetDocumentSymbols(call.lines))]
  /\ UNCHANGED analyzer
  /\ UNCHANGED exceptAnalyzer

MaxSymbolLines == 3
SymbolLineVocabulary ==
  { <<"c","l","a","s","s"," ","A">>, <<"d","e","f"," ","a">>,
    <<"d","e","f"," ","s","e","l","f",".","b">>,
    <<"m","o","d","u","l","e"," ","M">>, <<" ","d","e","f"," ","c","?">>,
    <<"e","n","d">>, <<"c","l","a","s","s","y">>, <<"a"," ","="," ","1">> }

InitSymbols ==
  /\ \E n \in 1..MaxSymbolLines : \E d \in [1..n -> SymbolLineVocabulary] :
       call = Request("documentSymbols", d, NoPosition, FALSE)
  /\ analyzer = NewCrystalAnalyzer
  /\ LexerOff /\ BalanceOff /\ RefsOff /\ ParserOff /\ ServerOff

NextSymbols == DocumentSymbols

SpecSymbols == InitSymbols /\ [][NextSymbols]_vars

\* What a line declares, read off the line: its first word is class, def or
\* module, and the declared name follows it; the declared name of a method
\* stands after the receiver `self.` when there is one.
DeclarationOf(line) ==
  LET a == skipSpaces(line, 0)
      first == Slice(line, a, skipWord(line, a))
      b == skipSpaces(line, skipWord(line, a))
      c == IF first = <<"d","e","f">>
              /\ hasPrefixAt(line, b, <<"s","e","l","f",".">>)
           THEN b + 5 ELSE b
      d == skipWord(line, c)
      n == IF first = <<"d","e","f">> /\ d < Len(line)
              /\ At(line, d) \in {"?", "!"} THEN d + 1 ELSE d
      kind == IF first = <<"c","l","a","s","s">> THEN "Class"
              ELSE IF first = <<"d","e","f">> THEN "Method"
              ELSE IF first = <<"m","o","d","u","l","e">> THEN "Module"
              ELSE "None"
  IN IF kind # "None" /\ b > skipWord(line, a) /\ d > c
     THEN << [Name |-> Slice(line, c, n), Kind |-> kind] >>
     ELSE <<>>

\* C8: documentSymbols returns, in line order, exactly one symbol for every
\* line that declares a class, a method (def name or def self.name) or a
\* module and no other symbol; each carries the declared name, the matching
\* kind and the range from column 0 to the end of its line.
C8_DocumentSymbols ==
  (call.op = "documentSymbols" /\ call.done) =>
    LET lines == call.lines
        declaring == { n \in 0..(Len(lines) - 1) : DeclarationOf(lines[n + 1]) # <<>> }
        symbols == call.result.value
    IN /\ ~call.result.fault
       /\ Len(symbols) = Cardinality(declaring)
       /\ \A i \in 1..Len(symbols) :
            LET n == symbols[i].Location.Range.Start.Line
            IN /\ n \in declaring
               /\ Cardinality({m \in declaring : m < n}) = i - 1
               /\ symbols[i].Name = DeclarationOf(lines[n + 1])[1].Name
               /\ symbols[i].Kind = DeclarationOf(lines[n + 1])[1].Kind
               /\ symbols[i].Location.Range = LineRange(n, lines[n + 1])

----------------------------------------------------------------------------
(* Package regexp.  A regular expression is the list of its tokens; matching
   is leftmost-first as in the package: the leftmost start, at it the first
   alternative that leads to a match, a greedy repetition as long as it can
   be and a lazy one as short as it can be. *)

Lit(s) == [op |-> "lit", s |-> s]
Star(class) ==
  [op |-> "rep", class |-> class, min |-> 0, max |-> -1, greedy |-> TRUE]
Plus(class) ==
  [op |-> "rep", class |-> class, min |-> 1, max |-> -1, greedy |-> TRUE]
Maybe(class) ==
  [op |-> "rep", class |-> class, min |-> 0, max |-> 1, greedy |-> TRUE]
LazyStar(class) ==
  [op |-> "rep", class |-> class, min |-> 0, max |-> -1, greedy |-> FALSE]
\* ( and ) of the capturing group g
Open(g) == [op |-> "open", g |-> g]
Close(g) == [op |-> "close", g |-> g]
\* the next n tokens are optional: ( ... )? with its captures among them
Opt(n) == [op |-> "opt", n |-> n]
Bol == [op |-> "bol"]
Eol == [op |-> "eol"]
WordB == [op |-> "wb"]

\* the character classes: \s \w \d . [\?!] [a-zA-Z_] [^)] [^|] [^"] [^']
InClass(class, ch) ==
  CASE class = "s" -> isSpace(ch)
    [] class = "w" -> isRegexWordChar(ch)
    [] class = "d" -> ch \in Digits
    [] class = "." -> TRUE
    [] class = "?!" -> ch \in {"?", "!"}
    [] class = "a-zA-Z_" -> ch \in LowerLetters \cup UpperLetters \cup {"_"}
    [] class = "^)" -> ch # ")"
    [] class = "^|" -> ch # "|"
    [] class = "^\"" -> ch # "\""
    [] class = "^'" -> ch # "'"

\* the number of characters of class that stand at pos, max at most
Run(line, pos, class, max) ==
  LET RECURSIVE loop(_)
      loop(n) == IF /\ pos + n < Len(line) /\ n # max
                    /\ InClass(class, At(line, pos + n))
                 THEN loop(n + 1) ELSE n
  IN loop(0)

\* the first of two lists of at most one result that has one
OrElse(first, second) == IF first # <<>> THEN first ELSE second

\* the preferred way in which the tokens of re from the k-th on match line at
\* pos, as the list of the group bounds of the match (group 0 is the whole
\* match); the empty list when there is none
RECURSIVE Match(_, _, _, _, _)
RECURSIVE MatchRep(_, _, _, _, _, _, _, _)
Match(re, line, k, pos, caps) ==
  IF k > Len(re) THEN << [caps EXCEPT ![0].e = pos] >>
  ELSE CASE re[k].op = "lit" ->
              IF hasPrefixAt(line, pos, re[k].s)
              THEN Match(re, line, k + 1, pos + Len(re[k].s), caps) ELSE <<>>
         [] re[k].op = "rep" ->
              IF Run(line, pos, re[k].class, re[k].max) < re[k].min THEN <<>>
              ELSE IF re[k].greedy
              THEN MatchRep(re, line, k, pos, caps,
                            Run(line, pos, re[k].class, re[k].max), re[k].min, -1)
              ELSE MatchRep(re, line, k, pos, caps, re[k].min,
                            Run(line, pos, re[k].class, re[k].max), 1)
         [] re[k].op = "open" ->
              Match(re, line, k + 1, pos, [caps EXCEPT ![re[k].g].s = pos])
         [] re[k].op = "close" ->
              Match(re, line, k + 1, pos, [caps EXCEPT ![re[k].g].e = pos])
         [] re[k].op = "opt" ->
              OrElse(Match(re, line, k + 1, pos, caps),
                     Match(re, line, k + 1 + re[k].n, pos, caps))
         [] re[k].op = "bol" ->
              IF pos = 0 THEN Match(re, line, k + 1, pos, caps) ELSE <<>>
         [] re[k].op = "eol" ->
              IF pos = Len(line) THEN Match(re, line, k + 1, pos, caps) ELSE <<>>
         [] re[k].op = "wb" ->
              IF wordBoundary(line, pos) THEN Match(re, line, k + 1, pos, caps)
              ELSE <<>>

\* the repetition re[k] taken n times, then n + step times, as far as last
MatchRep(re, line, k, pos, caps, n, last, step) ==
  OrElse(Match(re, line, k + 1, pos + n, caps),
         IF n = last THEN <<>>
         ELSE MatchRep(re, line, k, pos, caps, n + step, last, step))

\* the leftmost match of re in line that starts at from or later
RECURSIVE FindFrom(_, _, _)
FindFrom(re, line, from) ==
  IF from > Len(line) THEN <<>>
  ELSE OrElse(Match(re, line, 1, from,
                    [g \in 0..Cardinality({k \in 1..Len(re) : re[k].op = "open"}) |->
                       [s |-> IF g = 0 THEN from ELSE -1, e |-> -1]]),
              FindFrom(re, line, from + 1))

\* the texts of the groups of each match of a list of matches; the text of
\* a group that took no part in the match is empty
Submatches(line, found) ==
  [i \in 1..Len(found) |->
     [g \in DOMAIN found[i] |->
        IF found[i][g].s = -1 \/ found[i][g].e = -1 THEN <<>>
        ELSE Slice(line, found[i][g].s, found[i][g].e)]]

\* FindStringSubmatch: the list of the one match, empty for nil
FindStringSubmatch(re, line) == Submatches(line, FindFrom(re, line, 0))

MatchString(re, line) == FindFrom(re, line, 0) # <<>>

\* the successive matches of re in line from index from on
RECURSIVE FindAllFrom(_, _, _)
FindAllFrom(re, line, from) ==
  LET rest(found) ==
        IF found = <<>> THEN <<>>
        ELSE found \o FindAllFrom(re, line,
                                  IF found[1][0].e > found[1][0].s
                                  THEN found[1][0].e ELSE found[1][0].e + 1)
  IN rest(FindFrom(re, line, from))

FindAllStringSubmatch(re, line) == Submatches(line, FindAllFrom(re, line, 0))

\* ReplaceAllString for a replacement without group references
ReplaceAllString(re, line, repl) ==
  LET RECURSIVE loop(_, _, _)
      loop(out, from, found) ==
        IF found = <<>> THEN out \o Slice(line, from, Len(line))
        ELSE loop(out \o Slice(line, from, found[1][0].s) \o repl,
                  found[1][0].e, Tail(found))
  IN loop(<<>>, 0, FindAllFrom(re, line, 0))

----------------------------------------------------------------------------
(* The structural parser (parseDocumentStructure and its helpers) *)

\* a Go map as a function; Put is the assignment m[k] = v
Put(m, k, v) == [x \in DOMAIN m \cup {k} |-> IF x = k THEN v ELSE m[x]]
EmptyMap == [x \in {} |-> x]

\* strings.TrimSpace
TrimSpace(s) ==
  LET RECURSIVE left(_)
      left(i) == IF i < Len(s) /\ isSpace(At(s, i)) THEN left(i + 1) ELSE i
      RECURSIVE right(_)
      right(j) == IF j > 0 /\ isSpace(At(s, j - 1)) THEN right(j - 1) ELSE j
      trim(from) == IF from >= Len(s) THEN <<>> ELSE Slice(s, from, right(Len(s)))
  IN trim(left(0))

\* strings.Split(s, sep) for a one-character separator
Split(s, sep) ==
  LET RECURSIVE loop(_, _)
      loop(parts, from) ==
        IF \A i \in from..(Len(s) - 1) : At(s, i) # sep
        THEN Append(parts, Slice(s, from, Len(s)))
        ELSE loop(Append(parts, Slice(s, from, from + Index(s, from, <<sep>>))),
                  from + Index(s, from, <<sep>>) + 1)
  IN loop(<<>>, 0)

\* strings.Contains
Contains(s, sub) == Index(s, 0, sub) # -1
HasPrefix(s, prefix) == hasPrefixAt(s, 0, prefix)
HasSuffix(s, suffix) ==
  Len(suffix) <= Len(s) /\ hasPrefixAt(s, Len(s) - Len(suffix), suffix)

parseParameters(paramsStr) ==
  LET stripAt(name) == IF HasPrefix(name, <<"@">>) THEN Slice(name, 1, Len(name))
                       ELSE name
      \* the parameter of a part with a colon, from the text after the colon
      typed(paramName, typeAndDefault) ==
        IF Contains(typeAndDefault, <<"=">>)
        THEN [Name |-> paramName,
              Type |-> TrimSpace(Split(typeAndDefault, "=")[1]),
              DefaultValue |-> TrimSpace(Split(typeAndDefault, "=")[2]),
              IsOptional |-> TrimSpace(Split(typeAndDefault, "=")[2]) # <<>>]
        ELSE [Name |-> paramName, Type |-> typeAndDefault,
              DefaultValue |-> <<>>, IsOptional |-> FALSE]
      parameter(paramPart) ==
        IF Contains(paramPart, <<":">>)
        THEN typed(stripAt(TrimSpace(Split(paramPart, ":")[1])),
                   TrimSpace(Split(paramPart, ":")[2]))
        ELSE [Name |-> stripAt(paramPart), Type |-> <<"O","b","j","e","c","t">>,
              DefaultValue |-> <<>>, IsOptional |-> FALSE]
      RECURSIVE loop(_, _, _)
      loop(parameters, paramParts, i) ==
        IF i > Len(paramParts) THEN parameters
        ELSE IF TrimSpace(paramParts[i]) = <<>>
        THEN loop(parameters, paramParts, i + 1)
        ELSE loop(Append(parameters, parameter(TrimSpace(paramParts[i]))),
                  paramParts, i + 1)
  IN IF paramsStr = <<>> THEN <<>> ELSE loop(<<>>, Split(paramsStr, ","), 1)

inferTypeFromAssignment(text) ==
  LET infer(assignment, new) ==
        IF new # <<>> THEN new[1][1]
        ELSE IF HasPrefix(assignment, <<"\"">>) /\ HasSuffix(assignment, <<"\"">>)
        THEN <<"S","t","r","i","n","g">>
        ELSE IF HasPrefix(assignment, <<"[">>) /\ HasSuffix(assignment, <<"]">>)
        THEN <<"A","r","r","a","y">>
        ELSE IF HasPrefix(assignment, <<"{">>) /\ HasSuffix(assignment, <<"}">>)
        THEN <<"H","a","s","h">>
        ELSE IF MatchString(<<Bol, Plus("d"), Lit(<<".">>), Plus("d"), Eol>>,
                            assignment)
        THEN <<"F","l","o","a","t","6","4">>
        ELSE IF MatchString(<<Bol, Plus("d"), Eol>>, assignment) THEN <<"I","n","t","3","2">>
        ELSE IF assignment \in { <<"t","r","u","e">>, <<"f","a","l","s","e">> } THEN <<"B","o","o","l">>
        ELSE <<"O","b","j","e","c","t">>
  IN infer(TrimSpace(text),
           FindStringSubmatch(<<Bol, Open(1), Plus("w"), Close(1), Lit(<<".","n","e","w">>),
                                WordB>>, TrimSpace(text)))

isClassEnd(lines, endLine, classStartLine) ==
  LET delta(line) ==
        IF \E kw \in { <<"d","e","f"," ">>, <<"i","f"," ">>, <<"u","n","l","e","s","s"," ">>, <<"c","a","s","e"," ">>, <<"w","h","i","l","e"," ">>,
                       <<"f","o","r"," ">> } : HasPrefix(line, kw)
        THEN 1
        ELSE IF line = <<"e","n","d">> THEN -1 ELSE 0
      RECURSIVE loop(_, _)
      loop(openBlocks, i) ==
        IF i >= endLine THEN openBlocks
        ELSE loop(openBlocks + delta(TrimSpace(lines[i + 1])), i + 1)
  IN loop(0, classStartLine + 1) = 0

LineStart(lineNum) == [Line |-> lineNum, Character |-> 0]

\* the context with the method stored in the current class, if there is one
storeMethod(context, currentClass, methodInfo) ==
  IF currentClass = <<>> THEN context
  ELSE [context EXCEPT !.Classes[currentClass[1]].Methods =
          Put(@, methodInfo.Name, methodInfo)]

\* ^\s*def\s+ [self\.] (\w+[\?!]?)(?:\((.*?)\))?(?:\s*:\s*(\w+))?
defPattern(receiver) ==
  <<Bol, Star("s"), Lit(<<"d","e","f">>), Plus("s"), Lit(receiver),
    Open(1), Plus("w"), Maybe("?!"), Close(1),
    Opt(5), Lit(<<"(">>), Open(2), LazyStar("."), Close(2), Lit(<<")">>),
    Opt(6), Star("s"), Lit(<<":">>), Star("s"), Open(3), Plus("w"), Close(3)>>

parseMethodDefinition(context, line, lineNum, currentClass) ==
  LET methodInfo(match, isStatic) ==
        [Name |-> match[1],
         Parameters |-> parseParameters(match[2]),
         ReturnType |-> IF match[3] # <<>> THEN match[3] ELSE <<"V","o","i","d">>,
         Location |-> LineStart(lineNum),
         Documentation |-> IF isStatic THEN "Static method" ELSE "Method",
         IsProperty |-> FALSE,
         IsInitializer |-> ~isStatic /\ match[1] = <<"i","n","i","t","i","a","l","i","z","e">>,
         IsStatic |-> isStatic]
      define(static, instance) ==
        IF static # <<>>
        THEN storeMethod(context, currentClass, methodInfo(static[1], TRUE))
        ELSE IF instance # <<>>
        THEN storeMethod(context, currentClass, methodInfo(instance[1], FALSE))
        ELSE context
  IN define(FindStringSubmatch(defPattern(<<"s","e","l","f",".">>), line),
            FindStringSubmatch(defPattern(<<>>), line))

parsePropertyDefinition(context, line, lineNum, currentClass) ==
  LET synthesize(propertyName, propertyType) ==
        [context EXCEPT
           !.Classes[currentClass[1]].Properties =
             Put(@, propertyName,
                 [Name |-> propertyName, Type |-> propertyType,
                  Location |-> LineStart(lineNum),
                  HasGetter |-> TRUE, HasSetter |-> TRUE, IsReadOnly |-> FALSE]),
           !.Classes[currentClass[1]].Methods =
             Put(Put(@, propertyName,
                     [Name |-> propertyName, Parameters |-> <<>>,
                      ReturnType |-> propertyType,
                      Location |-> LineStart(lineNum),
                      Documentation |-> "Property getter", IsProperty |-> TRUE,
                      IsInitializer |-> FALSE, IsStatic |-> FALSE]),
                 propertyName \o <<"=">>,
                 [Name |-> propertyName \o <<"=">>,
                  Parameters |-> << [Name |-> <<"v","a","l","u","e">>, Type |-> propertyType,
                                     DefaultValue |-> <<>>,
                                     IsOptional |-> FALSE] >>,
                  ReturnType |-> propertyType, Location |-> LineStart(lineNum),
                  Documentation |-> "Property setter", IsProperty |-> TRUE,
                  IsInitializer |-> FALSE, IsStatic |-> FALSE])]
      define(match) ==
        IF match = <<>> \/ currentClass = <<>> THEN context
        ELSE synthesize(match[1][1],
                        IF match[1][2] # <<>> THEN match[1][2] ELSE <<"O","b","j","e","c","t">>)
  IN define(FindStringSubmatch(
              <<Bol, Star("s"), Lit(<<"p","r","o","p","e","r","t","y">>), Plus("s"),
                Open(1), Plus("w"), Close(1),
                Opt(6), Star("s"), Lit(<<":">>), Star("s"),
                Open(2), Plus("w"), Close(2)>>, line))

parseVariableAssignment(context, line, lineNum) ==
  LET define(match) ==
        IF match = <<>> THEN context
        ELSE [context EXCEPT !.Variables =
                Put(@, match[1][1],
                    [Name |-> match[1][1],
                     Type |-> inferTypeFromAssignment(TrimSpace(match[1][2])),
                     Location |-> LineStart(lineNum), Scope |-> "global"])]
  IN define(FindStringSubmatch(
              <<Bol, Star("s"), Open(1), Plus("w"), Close(1), Star("s"),
                Lit(<<"=">>), Star("s"), Open(2), Plus("."), Close(2)>>, line))

\* one iteration of the line loop of parseDocumentStructure
parseLine(p) ==
  LET line == p.lines[p.lineNum + 1]
      openClass(match) ==
        IF match = <<>> THEN p
        ELSE [p EXCEPT
                !.currentClass = << match[1][1] >>,
                !.context.Classes =
                  Put(@, match[1][1],
                      [Name |-> match[1][1], Methods |-> EmptyMap,
                       Properties |-> EmptyMap,
                       Location |-> LineStart(p.lineNum),
                       SuperClass |-> match[1][2],
                       Visibility |-> "public"])]
      parseMembers(opened) ==
        [opened EXCEPT !.context =
           parseVariableAssignment(
             parsePropertyDefinition(
               parseMethodDefinition(@, line, p.lineNum, opened.currentClass),
               line, p.lineNum, opened.currentClass),
             line, p.lineNum)]
      closeClass(parsed) ==
        [parsed EXCEPT
           !.currentClass =
             IF /\ Contains(TrimSpace(line), <<"e","n","d">>)
                /\ @ # <<>>
                /\ isClassEnd(p.lines, p.lineNum,
                              parsed.context.Classes[@[1]].Location.Line)
             THEN <<>> ELSE @,
           !.lineNum = @ + 1]
  IN closeClass(parseMembers(openClass(FindStringSubmatch(
       <<Bol, Star("s"), Lit(<<"c","l","a","s","s">>), Plus("s"), Open(1), Plus("w"), Close(1),
         Opt(7), Star("s"), Lit(<<"<">>), Star("s"), Open(2), Plus("w"), Close(2)>>,
       line))))

NewDocumentContext == [Classes |-> EmptyMap, Variables |-> EmptyMap]

\* the analyzer a after the first statement of parseDocumentStructure, which
\* gives it a new, empty context
parseEntry(a) == [a EXCEPT !.context = NewDocumentContext]

\* the locals of parseDocumentStructure before the first line
parseStart(a, lines) ==
  [lines |-> lines, lineNum |-> 0, context |-> parseEntry(a).context,
   currentClass |-> <<>>, pc |-> "scan"]

\* the parse as far as line n (exclusive)
RECURSIVE parsedUpTo(_, _, _)
parsedUpTo(a, lines, n) ==
  IF n = 0 THEN parseStart(a, lines)
  ELSE parseLine(parsedUpTo(a, lines, n - 1))

\* the analyzer a after parseDocumentStructure on the document lines
parseDocumentStructure(a, lines) ==
  [a EXCEPT !.context = parsedUpTo(a, lines, Len(lines)).context]



ParseLine ==
  /\ parser.pc = "scan"
  /\ parser.lineNum < Len(parser.lines)
  /\ parser' = parseLine(parser)
  /\ UNCHANGED exceptParser

ParseReturn ==
  /\ parser.pc = "scan"
  /\ parser.lineNum = Len(parser.lines)
  /\ parser' = [parser EXCEPT !.pc = "done"]
  /\ UNCHANGED exceptParser

MaxParseLines == 4
ParseLineVocabulary ==
  { <<"c","l","a","s","s"," ","A">>, <<"c","l","a","s","s"," ","B"," ","<"," ","A">>, <<"p","r","o","p","e","r","t","y"," ","x"," ",":"," ","T">>, <<"p","r","o","p","e","r","t","y"," ","x">>,
    <<"d","e","f"," ","x">>, <<"d","e","f"," ","x","=","(","v",")">>, <<"d","e","f"," ","s","e","l","f",".","y","(","a"," ",":"," ","T",")"," ",":"," ","U">>, <<"e","n","d">>, <<"v"," ","="," ","A",".","n","e","w">> }

InitParser ==
  /\ \E n \in 1..MaxParseLines : \E d \in [1..n -> ParseLineVocabulary] :
       parser = parseStart(NewCrystalAnalyzer, d)
  /\ LexerOff /\ BalanceOff /\ RefsOff /\ AnalyzerOff /\ ServerOff

NextParser == ParseLine \/ ParseReturn

SpecParser == InitParser /\ [][NextParser]_vars


\* What a `property <name> [: Type]` line declares, read off the line: the
\* name after the word property and the type after a colon, Object when the
\* line gives none.
PropertyDeclaration(line) ==
  LET a == skipSpaces(line, 0)
      b == skipSpaces(line, a + 8)
      c == skipWord(line, b)
      d == skipSpaces(line, c)
      e == skipSpaces(line, d + 1)
      f == skipWord(line, e)
  IN IF hasPrefixAt(line, a, <<"p","r","o","p","e","r","t","y">>) /\ b > a + 8 /\ c > b
     THEN << [name |-> Slice(line, b, c),
              type |-> IF d < Len(line) /\ At(line, d) = ":" /\ f > e
                       THEN Slice(line, e, f) ELSE <<"O","b","j","e","c","t">>] >>
     ELSE <<>>

\* C7: at every point of a structural parse, for every property line read so
\* far that stands inside a class (the class current when the line is read),
\* that class's method map holds <name> as a zero-parameter method returning
\* the declared type and <name>= as a method with exactly one parameter of
\* that type, and its property map holds <name> with hasGetter = hasSetter =
\* true; and in every class the entries <name> and <name>= of a property are
\* both present or both absent.
C7_PropertySynthesis ==
  parser.pc \in {"scan", "done"} =>
    /\ \A i \in 0..(parser.lineNum - 1) :
         LET declared == PropertyDeclaration(parser.lines[i + 1])
             inside == parsedUpTo(NewCrystalAnalyzer, parser.lines, i).currentClass
         IN (declared # <<>> /\ inside # <<>>) =>
              LET class == parser.context.Classes[inside[1]]
                  name == declared[1].name
                  setter == name \o <<"=">>
              IN /\ name \in DOMAIN class.Methods
                 /\ class.Methods[name].Parameters = <<>>
                 /\ class.Methods[name].ReturnType = declared[1].type
                 /\ setter \in DOMAIN class.Methods
                 /\ Len(class.Methods[setter].Parameters) = 1
                 /\ class.Methods[setter].Parameters[1].Type = declared[1].type
                 /\ name \in DOMAIN class.Properties
                 /\ class.Properties[name].HasGetter
                 /\ class.Properties[name].HasSetter
    /\ \A c \in DOMAIN parser.context.Classes :
         LET class == parser.context.Classes[c]
         IN /\ \A name \in DOMAIN class.Properties :
                 name \in DOMAIN class.Methods
                 /\ (name \o <<"=">>) \in DOMAIN class.Methods
            /\ \A m \in DOMAIN class.Methods :
                 m[Len(m)] = "=" =>
                   SubSeq(m, 1, Len(m) - 1) \in DOMAIN class.Methods


----------------------------------------------------------------------------
(* The diagnostics engine (getDiagnostics and its helpers) *)

builtinTypes ==
  << <<"A","r","r","a","y">>, <<"B","o","o","l">>, <<"C","h","a","r">>, <<"C","l","a","s","s">>, <<"E","n","u","m">>, <<"F","l","o","a","t","3","2">>,
     <<"F","l","o","a","t","6","4">>, <<"H","a","s","h">>, <<"I","n","t","8">>, <<"I","n","t","1","6">>, <<"I","n","t","3","2">>, <<"I","n","t","6","4">>,
     <<"I","n","t","1","2","8">>, <<"M","o","d","u","l","e">>, <<"N","i","l">>, <<"N","u","m","b","e","r">>, <<"O","b","j","e","c","t">>, <<"P","r","o","c">>,
     <<"R","a","n","g","e">>, <<"R","e","g","e","x">>, <<"S","e","t">>, <<"S","t","r","i","n","g">>, <<"S","y","m","b","o","l">>, <<"T","u","p","l","e">>,
     <<"U","I","n","t","8">>, <<"U","I","n","t","1","6">>, <<"U","I","n","t","3","2">>, <<"U","I","n","t","6","4">>, <<"U","I","n","t","1","2","8">>, <<"U","n","i","o","n">>,
     <<"V","a","l","u","e">>, <<"V","o","i","d">> >>

\* strings.Count(s, sub) for a non-empty sub
Count(s, sub) == Len(FindAllFrom(<<Lit(sub)>>, s, 0))

checkSyntaxError(line, pos) ==
  LET unclosed ==
        IF (Count(line, <<"\"">>) - Count(line, <<"\\","\"">>)) % 2 # 0
        THEN << [Range |-> [Start |-> pos,
                            End |-> [Line |-> pos.Line, Character |-> Len(line)]],
                 Severity |-> "Error", Message |-> [kind |-> "UnclosedString"]] >>
        ELSE <<>>
      invalid(param) ==
        /\ param # <<>>
        /\ ~MatchString(
              <<Bol, Opt(1), Lit(<<"@">>), Plus("w"),
                Opt(12), Open(1), Star("s"), Lit(<<":">>), Star("s"), Plus("w"),
                  Opt(5), Open(2), Lit(<<"[">>), Plus("w"), Lit(<<"]">>), Close(2),
                Close(1),
                Opt(6), Open(3), Star("s"), Lit(<<"=">>), Star("s"), Plus("."),
                Close(3), Eol>>, param)
      RECURSIVE loop(_, _, _, _)
      loop(diagnostics, whole, params, i) ==
        IF i > Len(params) THEN diagnostics
        ELSE IF invalid(TrimSpace(params[i])) /\ Index(line, 0, whole) # -1
        THEN loop(Append(diagnostics,
               [Range |-> WordRange(pos.Line, Index(line, 0, whole), whole),
                Severity |-> "Warning",
                Message |-> [kind |-> "InvalidParameter",
                             param |-> TrimSpace(params[i]), index |-> i]]),
               whole, params, i + 1)
        ELSE loop(diagnostics, whole, params, i + 1)
      validate(match) ==
        IF match = <<>> THEN unclosed
        ELSE loop(unclosed, match[1][0], Split(match[1][2], ","), 1)
  IN validate(FindStringSubmatch(
       <<Bol, Star("s"), Lit(<<"d","e","f">>), Plus("s"), Opt(1), Lit(<<"s","e","l","f",".">>),
         Open(1), Plus("w"), Close(1), Star("s"), Lit(<<"(">>), Star("s"),
         Open(2), Star("^)"), Close(2), Star("s"), Lit(<<")">>)>>, line))

removeStringContent(line) ==
  ReplaceAllString(<<Lit(<<"'">>), Star("^'"), Lit(<<"'">>)>>,
                   ReplaceAllString(<<Lit(<<"\"">>), Star("^\""), Lit(<<"\"">>)>>,
                                    line, <<"\"","\"">>),
                   <<"'","'">>)

isDefinitionLine(line) ==
  \/ \E kw \in { <<"c","l","a","s","s">>, <<"d","e","f">>, <<"p","r","o","p","e","r","t","y">>, <<"m","o","d","u","l","e">>, <<"e","n","u","m">>,
                 <<"s","t","r","u","c","t">> } :
       MatchString(<<Bol, Star("s"), Lit(kw), Plus("s"), Plus("w")>>, line)
  \/ MatchString(<<Bol, Star("s"), Lit(<<"d","e","f">>), Plus("s"), Lit(<<"s","e","l","f",".">>),
                   Plus("w")>>, line)
  \/ MatchString(<<Bol, Star("s"), Lit(<<"e","n","d">>), Star("s"), Eol>>, line)

isKeyword(word) == \E i \in 1..Len(keywords) : keywords[i] = word
isBuiltinType(word) == \E i \in 1..Len(builtinTypes) : builtinTypes[i] = word

isMethodCall(line, varName) ==
  \/ MatchString(<<Lit(varName), Star("s"), Lit(<<"(">>)>>, line)
  \/ MatchString(<<Plus("w"), Lit(<<".">>), Lit(varName)>>, line)

isVariableDefined(context, lines, varName, pos) ==
  \/ varName \in DOMAIN context.Variables
  \/ \E i \in 0..pos.Line :
       \/ MatchString(<<WordB, Lit(varName), Star("s"), Lit(<<"=">>)>>,
                      lines[i + 1])
       \/ MatchString(<<Lit(<<"d","e","f">>), Plus("s"), Plus("w"), Lit(<<"(">>),
                        Star("^)"), WordB, Lit(varName), WordB>>, lines[i + 1])
       \/ MatchString(<<Lit(<<"|">>), Star("s"), Star("^|"), WordB, Lit(varName),
                        WordB>>, lines[i + 1])

isClassDefined(context, className) == className \in DOMAIN context.Classes

checkUndefinedVariable(context, lines, line, pos) ==
  LET RECURSIVE loop(_, _, _, _)
      loop(diagnostics, cleanLine, matches, i) ==
        IF i > Len(matches) THEN diagnostics
        ELSE IF \/ isKeyword(matches[i][1]) \/ isBuiltinType(matches[i][1])
                \/ isMethodCall(cleanLine, matches[i][1])
                \/ isVariableDefined(context, lines, matches[i][1], pos)
                \/ isClassDefined(context, matches[i][1])
                \/ Index(line, 0, matches[i][1]) = -1
        THEN loop(diagnostics, cleanLine, matches, i + 1)
        ELSE loop(Append(diagnostics,
               [Range |-> WordRange(pos.Line, Index(line, 0, matches[i][1]),
                                    matches[i][1]),
                Severity |-> "Warning",
                Message |-> [kind |-> "Undefined", name |-> matches[i][1]]]),
               cleanLine, matches, i + 1)
      scan(cleanLine) ==
        loop(<<>>, cleanLine,
             FindAllStringSubmatch(
               <<WordB, Open(1), Plus("a-zA-Z_"), Star("w"), Close(1), WordB>>,
               cleanLine), 1)
  IN IF isDefinitionLine(line) THEN <<>> ELSE scan(removeStringContent(line))

getDiagnostics(context, lines) ==
  LET RECURSIVE loop(_, _)
      loop(diagnostics, i) ==
        IF i >= Len(lines) THEN diagnostics
        ELSE loop(diagnostics
                    \o checkSyntaxError(lines[i + 1], LineStart(i))
                    \o checkUndefinedVariable(context, lines, lines[i + 1],
                                              LineStart(i)),
                  i + 1)
  IN loop(checkStructureBalance(lines), 0)

\* AnalyzeDocument: the structural parse, then the diagnostics
AnalyzeDocument ==
  /\ call.op = "analyze" /\ ~call.done
  /\ analyzer' = parseDocumentStructure(analyzer, call.lines)
  /\ call' = [call EXCEPT !.done = TRUE,
                !.result = Returned(getDiagnostics(analyzer'.context, call.lines))]
  /\ UNCHANGED exceptAnalyzer

MaxStringLineLen == 4
StringAlphabet == {"\"", "\\", "a", " "}
StringLines == UNION {[1..n -> StringAlphabet] : n \in 0..MaxStringLineLen}

InitStrings ==
  /\ \E first \in StringLines : \E rest \in {<<>>, << <<"a">> >>} :
       call = Request("analyze", <<first>> \o rest, NoPosition, FALSE)
  /\ analyzer = NewCrystalAnalyzer
  /\ LexerOff /\ BalanceOff /\ RefsOff /\ ParserOff /\ ServerOff

NextStrings == AnalyzeDocument

SpecStrings == InitStrings /\ [][NextStrings]_vars

\* The double quotes of a line that no backslash escapes: a backslash
\* escapes the character after it, unless it is itself escaped.
UnescapedQuotes(line) ==
  LET RECURSIVE escaped(_)
      escaped(i) == i > 0 /\ At(line, i - 1) = "\\" /\ ~escaped(i - 1)
  IN { i \in 0..(Len(line) - 1) : At(line, i) = "\"" /\ ~escaped(i) }

\* C6: analyze reports an Error-severity unclosed-string diagnostic anchored
\* on a line if and only if the number of double quotes of the line that no
\* backslash escapes is odd, an escaped backslash before a quote not
\* escaping it.
C6_UnclosedString ==
  (call.op = "analyze" /\ call.done) =>
    \A n \in 0..(Len(call.lines) - 1) :
      (\E i \in 1..Len(call.result.value) :
         LET d == call.result.value[i]
         IN /\ d.Message.kind = "UnclosedString"
            /\ d.Severity = "Error"
            /\ d.Range.Start.Line = n /\ d.Range.End.Line = n)
      <=> Cardinality(UnescapedQuotes(call.lines[n + 1])) % 2 = 1


----------------------------------------------------------------------------
(* Completion (GetCompletions and its helpers) *)

Alphabet ==
  << "a","b","c","d","e","f","g","h","i","j","k","l","m",
     "n","o","p","q","r","s","t","u","v","w","x","y","z" >>
Capitals ==
  << "A","B","C","D","E","F","G","H","I","J","K","L","M",
     "N","O","P","Q","R","S","T","U","V","W","X","Y","Z" >>

\* strings.ToLower
ToLower(s) ==
  [i \in 1..Len(s) |->
     IF \E k \in 1..Len(Capitals) : Capitals[k] = s[i]
     THEN Alphabet[CHOOSE k \in 1..Len(Capitals) : Capitals[k] = s[i]]
     ELSE s[i]]

\* strings.Fields
Fields(s) ==
  LET RECURSIVE loop(_, _, _)
      \* start is the index at which the field being read began, -1 between
      \* fields
      loop(fields, start, i) ==
        IF i = Len(s)
        THEN IF start >= 0 THEN Append(fields, Slice(s, start, i)) ELSE fields
        ELSE IF isSpace(At(s, i))
        THEN loop(IF start >= 0 THEN Append(fields, Slice(s, start, i))
                  ELSE fields, -1, i + 1)
        ELSE loop(fields, IF start >= 0 THEN start ELSE i, i + 1)
  IN loop(<<>>, -1, 0)

getLastWord(text) ==
  LET last(words) == IF Len(words) > 0 THEN words[Len(words)] ELSE text
  IN last(Fields(text))

\* strings.LastIndex(s, sub) for a one-character sub
LastIndex(s, sub) ==
  IF \A i \in 0..(Len(s) - 1) : At(s, i) # sub THEN -1
  ELSE CHOOSE i \in 0..(Len(s) - 1) :
         At(s, i) = sub /\ \A j \in (i + 1)..(Len(s) - 1) : At(s, j) # sub

\* the orders in which a range loop may visit the keys of a Go map
IterationOrders(keys) ==
  { order \in [1..Cardinality(keys) -> keys] :
      \A i, j \in 1..Cardinality(keys) : i # j => order[i] # order[j] }

isClassName(a, name) == name \in DOMAIN a.context.Classes

\* the list of the type found for varName, empty when none is found
findVariableType(a, varName, lines, pos) ==
  LET \* parts[1] of strings.Split(line, pattern) when pattern is in line
      afterFirst(rest, pattern) ==
        IF Index(rest, 0, pattern) = -1 THEN rest
        ELSE Slice(rest, 0, Index(rest, 0, pattern))
      RECURSIVE scan(_, _)
      scan(i, startLine) ==
        IF i < startLine THEN <<>>
        ELSE IF Contains(lines[i + 1], varName \o <<" ","="," ">>)
        THEN << inferTypeFromAssignment(TrimSpace(
                  afterFirst(Slice(lines[i + 1],
                                   Index(lines[i + 1], 0, varName \o <<" ","="," ">>)
                                     + Len(varName) + 3,
                                   Len(lines[i + 1])),
                             varName \o <<" ","="," ">>))) >>
        ELSE scan(i - 1, startLine)
  IN IF varName \in DOMAIN a.context.Variables
     THEN << a.context.Variables[varName].Type >>
     ELSE scan(pos.Line, IF pos.Line > 100 THEN pos.Line - 100 ELSE 0)

inferTypeOfExpression(a, expression, lines, pos) ==
  LET infer(match) ==
        IF match # <<>> /\ isClassName(a, match[1][1]) THEN match[1][1]
        ELSE IF match # <<>>
        THEN OrElse(findVariableType(a, match[1][1], lines, pos),
                    << <<"O","b","j","e","c","t">> >>)[1]
        ELSE <<"O","b","j","e","c","t">>
  IN infer(FindStringSubmatch(<<Bol, Open(1), Plus("w"), Close(1), Eol>>,
                              TrimSpace(expression)))

extractObjectName(expression) == TrimSpace(Split(expression, ".")[1])

analyzeCompletionContext(a, lines, pos, prefix) ==
  LET method(beforeDot, afterDot) ==
        [Type |-> "Method", Prefix |-> prefix,
         ObjectType |-> inferTypeOfExpression(a, beforeDot, lines, pos),
         ObjectName |-> extractObjectName(beforeDot),
         LastWord |-> afterDot,
         IsStatic |-> isClassName(a, beforeDot)]
  IN IF LastIndex(prefix, ".") # -1
     THEN method(TrimSpace(Slice(prefix, 0, LastIndex(prefix, "."))),
                 Slice(prefix, LastIndex(prefix, ".") + 1, Len(prefix)))
     ELSE [Type |-> "General", Prefix |-> prefix, ObjectType |-> <<>>,
           ObjectName |-> <<>>, LastWord |-> getLastWord(prefix),
           IsStatic |-> FALSE]

getBuiltInObjectMethods ==
  << <<"c","l","a","s","s">>, <<"t","o","_","s">>, <<"i","n","s","p","e","c","t">>, <<"n","i","l","?">>, <<"r","e","s","p","o","n","d","s","_","t","o","?">> >>

\* the names of the built-in methods of a type, in the order of the source
getBuiltInMethodsForType(typeName) ==
  (CASE typeName = <<"S","t","r","i","n","g">> ->
          << <<"s","i","z","e">>, <<"l","e","n","g","t","h">>, <<"e","m","p","t","y","?">>, <<"u","p","c","a","s","e">>, <<"d","o","w","n","c","a","s","e">>,
             <<"s","t","r","i","p">>, <<"s","p","l","i","t">>, <<"i","n","c","l","u","d","e","s","?">>, <<"s","t","a","r","t","s","_","w","i","t","h","?">>,
             <<"e","n","d","s","_","w","i","t","h","?">> >>
     [] typeName = <<"A","r","r","a","y">> ->
          << <<"s","i","z","e">>, <<"l","e","n","g","t","h">>, <<"e","m","p","t","y","?">>, <<"p","u","s","h">>, <<"<","<">>, <<"p","o","p">>,
             <<"f","i","r","s","t">>, <<"l","a","s","t">>, <<"e","a","c","h">>, <<"m","a","p">>, <<"s","e","l","e","c","t">> >>
     [] typeName = <<"H","a","s","h">> ->
          << <<"s","i","z","e">>, <<"l","e","n","g","t","h">>, <<"e","m","p","t","y","?">>, <<"k","e","y","s">>, <<"v","a","l","u","e","s">>,
             <<"h","a","s","_","k","e","y","?">>, <<"e","a","c","h">> >>
     [] OTHER -> <<>>)
  \o getBuiltInObjectMethods

\* the lists of method names that getMethodsForType may return, one for each
\* order in which the loop may visit the methods of the class
getMethodsForType(a, typeName, isStatic) ==
  LET wanted(methods) ==
        { SelectSeq(order, LAMBDA name : methods[name].IsStatic = isStatic) :
            order \in IterationOrders(DOMAIN methods) }
      ofClass == IF typeName \in DOMAIN a.context.Classes
                 THEN wanted(a.context.Classes[typeName].Methods)
                 ELSE { <<>> }
  IN { methods \o (IF isStatic THEN <<>> ELSE getBuiltInMethodsForType(typeName)) :
         methods \in ofClass }

\* the items for the names of a list; the signature and the documentation
\* texts of a method item are left out of an item
completionItems(names, kind, detail) ==
  [i \in 1..Len(names) |->
     [Label |-> names[i], Kind |-> kind, Detail |-> detail]]

\* the items for the variables of a list, each with the type of its variable
variableItems(a, names) ==
  [i \in 1..Len(names) |->
     [Label |-> names[i], Kind |-> "Variable",
      Detail |-> a.context.Variables[names[i]].Type]]

\* HasPrefix(ToLower(name), ToLower(LastWord)) unless LastWord is empty
matchesLastWord(name, LastWord) ==
  LastWord = <<>> \/ HasPrefix(ToLower(name), ToLower(LastWord))

getMethodCompletions(a, context) ==
  { completionItems(
      SelectSeq(methods, LAMBDA name : matchesLastWord(name, context.LastWord)),
      "Method", <<>>) :
      methods \in getMethodsForType(a, context.ObjectType, context.IsStatic) }

getKeywordCompletions(context) ==
  completionItems(
    SelectSeq(keywords, LAMBDA keyword :
                context.LastWord = <<>> \/ HasPrefix(keyword, context.LastWord)),
    "Keyword", <<>>)

getGeneralCompletions_UnfilteredVariables(a, context) ==
  { getKeywordCompletions(context)
      \o completionItems(
           SelectSeq(builtinTypes,
                     LAMBDA typ : matchesLastWord(typ, context.LastWord)),
           "Class", <<>>)
      \o completionItems(
           SelectSeq(classes,
                     LAMBDA className : matchesLastWord(className, context.LastWord)),
           "Class", <<"L","o","c","a","l"," ","c","l","a","s","s">>)
      \o variableItems(a, variables) :
      classes \in IterationOrders(DOMAIN a.context.Classes),
      variables \in IterationOrders(DOMAIN a.context.Variables) }

\* the item lists that getGeneralCompletions may return, one for each order
\* in which its loops may visit the classes and the variables
getGeneralCompletions(a, context) ==
  { getKeywordCompletions(context)
      \o completionItems(
           SelectSeq(builtinTypes,
                     LAMBDA typ : matchesLastWord(typ, context.LastWord)),
           "Class", <<>>)
      \o completionItems(
           SelectSeq(classes,
                     LAMBDA className : matchesLastWord(className, context.LastWord)),
           "Class", <<"L","o","c","a","l"," ","c","l","a","s","s">>)
      \o variableItems(a,
           SelectSeq(variables,
                     LAMBDA varName : matchesLastWord(varName, context.LastWord))) :
      classes \in IterationOrders(DOMAIN a.context.Classes),
      variables \in IterationOrders(DOMAIN a.context.Variables) }

\* the outcomes of GetCompletions on the analyzer a: the analyzer it leaves
\* and the result it returns
GetCompletions(a, lines, pos) ==
  LET complete(parsed, context) ==
        CASE context.Type = "Method" -> getMethodCompletions(parsed, context)
          [] context.Type = "Keyword" -> { getKeywordCompletions(context) }
          [] OTHER -> getGeneralCompletions(parsed, context)
      clamped(currentLine) ==
        IF pos.Character > Len(currentLine) THEN Len(currentLine)
        ELSE pos.Character
      outcomes(parsed) ==
        IF pos.Line >= Len(lines)
        THEN { [analyzer |-> parsed, result |-> Returned(<<>>)] }
        ELSE { [analyzer |-> parsed, result |-> Returned(items)] :
                 items \in complete(parsed,
                   analyzeCompletionContext(parsed, lines,
                     [pos EXCEPT !.Character = clamped(lines[pos.Line + 1])],
                     Slice(lines[pos.Line + 1], 0,
                           clamped(lines[pos.Line + 1]))) ) }
  IN outcomes(parseDocumentStructure(a, lines))

Completion ==
  /\ call.op = "complete" /\ ~call.done
  /\ \E outcome \in GetCompletions(analyzer, call.lines, call.pos) :
       /\ analyzer' = outcome.analyzer
       /\ call' = [call EXCEPT !.done = TRUE, !.result = outcome.result]
  /\ UNCHANGED exceptAnalyzer

MaxDeclLines == 2
MaxQueryChar == 5
DeclLineVocabulary ==
  { <<"c","l","a","s","s"," ","F","o","o">>, <<" "," ","d","e","f"," ","b","a","r">>, <<" "," ","d","e","f"," ","s","e","l","f",".","m","a","k","e">>, <<"e","n","d">>,
    <<"f","o","o"," ","="," ","F","o","o",".","n","e","w">>, <<"s"," ","="," ","\"","a","\"">> }
QueryLineVocabulary ==
  { <<"f","o">>, <<"F","o">>, <<"f","o","o",".","b">>, <<"F","o","o",".">>, <<"s",".","u","p">>, <<"x"," ","c","l"," ">>, <<" ">> }
\* some declaration lines and after them the line being typed
QueryDocuments ==
  { decls \o << query >> :
      decls \in UNION { [1..n -> DeclLineVocabulary] : n \in 0..MaxDeclLines },
      query \in QueryLineVocabulary }
QueryPositions ==
  { [Line |-> l, Character |-> c] :
      l \in 0..(MaxDeclLines + 1), c \in 0..MaxQueryChar }

InitComplete ==
  /\ \E d \in QueryDocuments : \E pos \in QueryPositions :
       call = Request("complete", d, pos, FALSE)
  /\ analyzer = NewCrystalAnalyzer
  /\ LexerOff /\ BalanceOff /\ RefsOff /\ ParserOff /\ ServerOff

NextComplete == Completion

SpecComplete == InitComplete /\ [][NextComplete]_vars

\* The text before the cursor of a completed call: the cursor stands at the
\* requested character, at the end of the line when that is beyond it.
TextBeforeCursor ==
  LET line == call.lines[call.pos.Line + 1]
  IN SubSeq(line, 1, IF call.pos.Character > Len(line) THEN Len(line)
                     ELSE call.pos.Character)

\* The last whitespace-delimited token of a text: the longest stretch without
\* whitespace that ends at the last character that is not whitespace; empty
\* when there is no such character.
LastToken(text) ==
  LET solid == { i \in 1..Len(text) : text[i] # " " }
      stop == CHOOSE e \in solid : \A i \in solid : i <= e
      start == CHOOSE b \in 1..stop :
                 /\ \A i \in b..stop : i \in solid
                 /\ b > 1 => (b - 1) \notin solid
  IN IF solid = {} THEN <<>> ELSE SubSeq(text, start, stop)

\* token is a prefix of label when the case of letters is disregarded
CaseInsensitivePrefix(token, label) ==
  /\ Len(token) <= Len(label)
  /\ \A i \in 1..Len(token) :
       \/ token[i] = label[i]
       \/ \E k \in 1..Len(Alphabet) :
            {token[i], label[i]} = {Alphabet[k], Capitals[k]}

\* C10: every item that complete returns in a non-method context (no `.` in
\* the text before the cursor on the current line) has a label of which the
\* last whitespace-delimited token before the cursor is a case-insensitive
\* prefix; so no keyword, built-in type, local class or local variable that
\* fails the prefix test is returned.
C10_PrefixLaw ==
  (/\ call.op = "complete" /\ call.done
   /\ call.pos.Line < Len(call.lines)
   /\ \A i \in 1..Len(TextBeforeCursor) : TextBeforeCursor[i] # ".") =>
     /\ ~call.result.fault
     /\ \A i \in 1..Len(call.result.value) :
          /\ call.result.value[i].Kind \in {"Keyword", "Class", "Variable"}
          /\ CaseInsensitivePrefix(LastToken(TextBeforeCursor),
                                   call.result.value[i].Label)

\* a non-method completion after the token `fo` that returns the local class
\* Foo and the local variable foo
C10_Witness ==
  /\ call.op = "complete" /\ call.done
  /\ call.pos.Line < Len(call.lines)
  /\ TextBeforeCursor = <<"f","o">>
  /\ \E i \in 1..Len(call.result.value) :
       /\ call.result.value[i].Label = <<"F","o","o">>
       /\ call.result.value[i].Detail = <<"L","o","c","a","l"," ","c","l","a","s","s">>
  /\ \E i \in 1..Len(call.result.value) :
       /\ call.result.value[i].Label = <<"f","o","o">>
       /\ call.result.value[i].Kind = "Variable"

----------------------------------------------------------------------------
(* Hover, signature help and definition (analyzer.go) *)

\* the parseDocumentStructure of analyzer.go, which fills documentClasses and
\* documentMethods
parseDocumentClasses(a, lines) ==
  LET has(methods, name) == \E i \in 1..Len(methods) : methods[i] = name
      class(s, lineNum, match) ==
        IF match = <<>> THEN s
        ELSE [s EXCEPT
                !.currentClass = match[1][1],
                !.classes = Put(@, match[1][1],
                                [Name |-> match[1][1], Methods |-> <<>>,
                                 Location |-> LineStart(lineNum)])]
      def(s, match) ==
        IF match = <<>> THEN s
        ELSE [s EXCEPT
                !.classes =
                  IF /\ s.currentClass # <<>>
                     /\ s.currentClass \in DOMAIN s.classes
                     /\ ~has(s.classes[s.currentClass].Methods, match[1][1])
                  THEN [@ EXCEPT ![s.currentClass].Methods =
                                   Append(@, match[1][1])]
                  ELSE @,
                !.methods =
                  Put(@, s.currentClass,
                      IF s.currentClass \in DOMAIN s.methods
                      THEN Append(s.methods[s.currentClass], match[1][1])
                      ELSE << match[1][1] >>)]
      accessors(methods, propertyName) ==
        methods
          \o (IF has(methods, propertyName) THEN <<>> ELSE << propertyName >>)
          \o (IF has(methods, propertyName \o <<"=">>) THEN <<>>
              ELSE << propertyName \o <<"=">> >>)
      property(s, match) ==
        IF /\ match # <<>>
           /\ s.currentClass # <<>>
           /\ s.currentClass \in DOMAIN s.classes
        THEN [s EXCEPT !.classes[s.currentClass].Methods =
                         accessors(@, match[1][1])]
        ELSE s
      end(s, line) ==
        IF TrimSpace(line) = <<"e","n","d">> THEN [s EXCEPT !.currentClass = <<>>]
        ELSE s
      RECURSIVE upTo(_)
      upTo(n) ==
        IF n = 0
        THEN [classes |-> EmptyMap, methods |-> EmptyMap, currentClass |-> <<>>]
        ELSE end(property(def(class(upTo(n - 1), n - 1,
                 FindStringSubmatch(<<Bol, Star("s"), Lit(<<"c","l","a","s","s">>), Plus("s"),
                                      Open(1), Plus("w"), Close(1)>>, lines[n])),
                 FindStringSubmatch(<<Bol, Star("s"), Lit(<<"d","e","f">>), Plus("s"),
                                      Open(1), Plus("w"), Maybe("?!"), Close(1)>>,
                                    lines[n])),
                 FindStringSubmatch(<<Bol, Star("s"), Lit(<<"p","r","o","p","e","r","t","y">>), Plus("s"),
                                      Open(1), Plus("w"), Close(1)>>, lines[n])),
               lines[n])
      store(s) == [a EXCEPT !.documentClasses = s.classes,
                            !.documentMethods = s.methods]
  IN store(upTo(Len(lines)))

\* strings.Join
Join(elems, sep) ==
  LET RECURSIVE loop(_, _)
      loop(text, i) ==
        IF i > Len(elems) THEN text
        ELSE loop(text \o (IF i > 1 THEN sep ELSE <<>>) \o elems[i], i + 1)
  IN loop(<<>>, 1)

\* the outcome of GetHover on the analyzer a: the analyzer it leaves and the
\* result it returns, the empty list for nil
GetHover(a, lines, pos) ==
  LET contents(text) == << [Contents |-> << text >>] >>
      describe(parsed, word) ==
        IF word \in DOMAIN parsed.documentClasses
        THEN contents(<<"*","*">> \o word \o <<"*","*"," ","-"," ","L","o","c","a","l"," ","c","l","a","s","s">> \o <<"\n", "\n">>
                      \o <<"M","e","t","h","o","d","s",":"," ">>
                      \o Join(parsed.documentClasses[word].Methods, <<","," ">>))
        ELSE IF isKeyword(word)
        THEN contents(<<"*","*">> \o word \o <<"*","*"," ","-"," ","C","r","y","s","t","a","l"," ","k","e","y","w","o","r","d">>)
        ELSE IF isBuiltinType(word)
        THEN contents(<<"*","*">> \o word \o <<"*","*"," ","-"," ","B","u","i","l","t","-","i","n"," ","C","r","y","s","t","a","l"," ","t","y","p","e">>)
        ELSE <<>>
      hover(word) ==
        IF word = <<>> THEN [analyzer |-> a, result |-> Returned(<<>>)]
        ELSE [analyzer |-> parseDocumentClasses(a, lines),
              result |-> Returned(describe(parseDocumentClasses(a, lines), word))]
  IN IF pos.Line >= Len(lines)
     THEN [analyzer |-> a, result |-> Returned(<<>>)]
     ELSE hover(getWordAtPosition(lines[pos.Line + 1], pos.Character))

\* (\w+)\s*\($ : the name before the parenthesis that ends text
findMethodCall(text) ==
  LET name(matches) == IF matches # <<>> THEN matches[1][1] ELSE <<>>
  IN name(FindStringSubmatch(<<Open(1), Plus("w"), Close(1), Star("s"),
                               Lit(<<"(">>), Eol>>, text))

\* the result of GetSignatureHelp, the empty list for nil; the slice
\* currentLine[:pos.Character] panics when the character is beyond the line
GetSignatureHelp(lines, pos) ==
  LET help(methodCall) ==
        IF methodCall # <<>>
        THEN << [Signatures |->
                   << [Label |-> methodCall \o <<"(","a","r","g","s",")">>,
                       Documentation |-> <<"M","e","t","h","o","d"," ","c","a","l","l",":"," ">> \o methodCall] >>,
                 ActiveSignature |-> 0, ActiveParameter |-> 0] >>
        ELSE <<>>
  IN IF pos.Line >= Len(lines) THEN Returned(<<>>)
     ELSE IF pos.Character > Len(lines[pos.Line + 1]) THEN Faulted
     ELSE Returned(help(findMethodCall(
                          Slice(lines[pos.Line + 1], 0, pos.Character))))

\* the outcome of GetDefinition on the analyzer a.  The loops over the classes
\* and their methods look for the first `def <word>` line of the document
\* whenever a class has a method of that name, so what they find does not
\* depend on the order in which the classes are visited.
GetDefinition(a, lines, pos) ==
  LET first(S) == CHOOSE n \in S : \A m \in S : n <= m
      last(S) == CHOOSE n \in S : \A m \in S : m <= n
      at(lineNum, word) ==
        << [Range |-> WordRange(lineNum, Index(lines[lineNum + 1], 0, word),
                                word)] >>
      ofClass(classInfo, word) ==
        << [Range |->
              [Start |-> classInfo.Location,
               End |-> [Line |-> classInfo.Location.Line,
                        Character |-> classInfo.Location.Character + Len(word)]]] >>
      assigned(word) ==
        { i \in 0..pos.Line : matchAssignmentOf(lines[i + 1], word) }
      defined(classes, word) ==
        IF \E c \in DOMAIN classes :
             \E k \in 1..Len(classes[c].Methods) : classes[c].Methods[k] = word
        THEN { n \in 0..(Len(lines) - 1) :
                 MatchString(<<Bol, Star("s"), Lit(<<"d","e","f">>), Plus("s"),
                               Lit(word), WordB>>, lines[n + 1]) }
        ELSE {}
      locate(classes, word) ==
        IF word \in DOMAIN classes THEN ofClass(classes[word], word)
        ELSE IF defined(classes, word) # {}
        THEN at(first(defined(classes, word)), word)
        ELSE IF assigned(word) # {} THEN at(last(assigned(word)), word)
        ELSE <<>>
      definition(parsed, word) ==
        [analyzer |-> parsed,
         result |-> Returned(locate(parsed.documentClasses, word))]
  IN IF pos.Line >= Len(lines)
     THEN [analyzer |-> a, result |-> Returned(<<>>)]
     ELSE definition(parseDocumentClasses(a, lines),
                     getWordAtPosition(lines[pos.Line + 1], pos.Character))

Hover ==
  /\ call.op = "hover" /\ ~call.done
  /\ \E outcome \in { GetHover(analyzer, call.lines, call.pos) } :
       /\ analyzer' = outcome.analyzer
       /\ call' = [call EXCEPT !.done = TRUE, !.result = outcome.result]
  /\ UNCHANGED exceptAnalyzer

SignatureHelp ==
  /\ call.op = "signatureHelp" /\ ~call.done
  /\ call' = [call EXCEPT !.done = TRUE,
                          !.result = GetSignatureHelp(call.lines, call.pos)]
  /\ UNCHANGED analyzer
  /\ UNCHANGED exceptAnalyzer

Definition ==
  /\ call.op = "definition" /\ ~call.done
  /\ \E outcome \in { GetDefinition(analyzer, call.lines, call.pos) } :
       /\ analyzer' = outcome.analyzer
       /\ call' = [call EXCEPT !.done = TRUE, !.result = outcome.result]
  /\ UNCHANGED exceptAnalyzer

MaxPositionLines == 2
MaxPositionChar == 4
PositionLineVocabulary ==
  { <<>>, <<"a","b">>, <<"f","(">>, <<"c","l","a","s","s"," ","a","b">>, <<"a","b"," ","="," ","1">> }
PositionDocuments ==
  UNION { [1..n -> PositionLineVocabulary] : n \in 1..MaxPositionLines }
\* positions inside the document, beyond the end of a line and beyond the
\* last line
Positions ==
  { [Line |-> l, Character |-> c] :
      l \in 0..MaxPositionLines, c \in 0..MaxPositionChar }

InitQuery ==
  /\ \E d \in PositionDocuments : \E pos \in Positions :
       \/ /\ \E op \in {"complete", "hover", "signatureHelp", "definition"} :
               call = Request(op, d, pos, FALSE)
          /\ RefsOff
       \/ /\ \E o \in { <<"references", TRUE>>, <<"references", FALSE>>,
                        <<"documentHighlights", TRUE>> } :
               refs = [op |-> o[1], includeDeclaration |-> o[2], lines |-> d,
                       pos |-> pos, word |-> <<>>, lineNum |-> 0, index |-> 0,
                       locations |-> <<>>, pc |-> "call"]
          /\ call = [op |-> "off"]
  /\ analyzer = NewCrystalAnalyzer
  /\ LexerOff /\ BalanceOff /\ ParserOff /\ ServerOff

NextQuery ==
  \/ Completion \/ Hover \/ SignatureHelp \/ Definition
  \/ SearchEnter \/ ReferencesIterate \/ HighlightsIterate \/ SearchReturn

SpecQuery == InitQuery /\ [][NextQuery]_vars

\* the outcomes that the operation of the request c may have on the analyzer a
Outcomes(a, c) ==
  CASE c.op = "complete" -> GetCompletions(a, c.lines, c.pos)
    [] c.op = "hover" -> { GetHover(a, c.lines, c.pos) }
    [] c.op = "signatureHelp" ->
         { [analyzer |-> a, result |-> GetSignatureHelp(c.lines, c.pos)] }
    [] c.op = "definition" -> { GetDefinition(a, c.lines, c.pos) }
    [] c.op = "analyze" ->
         { [analyzer |-> parseDocumentStructure(a, c.lines),
            result |-> Returned(getDiagnostics(
                         parseDocumentStructure(a, c.lines).context, c.lines))] }
    [] c.op = "documentSymbols" ->
         { [analyzer |-> a, result |-> Returned(GetDocumentSymbols(c.lines))] }

\* the results that a new analyzer may return for the request c
FreshResults(c) == { o.result : o \in Outcomes(NewCrystalAnalyzer, c) }

\* the request c with its character moved to the end of the addressed line
AtLineLength(c) ==
  [c EXCEPT !.pos.Character = Len(c.lines[c.pos.Line + 1])]

\* no call has faulted
NoFault == (call.op # "off" /\ call.done) => ~call.result.fault

\* a line at or beyond the line count yields the empty result
BeyondLastLine ==
  /\ (call.op # "off" /\ call.done /\ call.pos.Line >= Len(call.lines)) =>
       call.result = Returned(<<>>)
  /\ (refs.pc = "done" /\ refs.pos.Line >= Len(refs.lines)) =>
       refs.locations = <<>>

\* a character beyond the addressed line is taken as the length of the line
BeyondLineEnd ==
  /\ (/\ call.op # "off" /\ call.done
      /\ call.pos.Line < Len(call.lines)
      /\ call.pos.Character > Len(call.lines[call.pos.Line + 1])) =>
       call.result \in FreshResults(AtLineLength(call))
  /\ (/\ refs.pc = "scan"
      /\ refs.pos.Character > Len(refs.lines[refs.pos.Line + 1])) =>
       refs.word = getWordAtPosition(refs.lines[refs.pos.Line + 1],
                                     Len(refs.lines[refs.pos.Line + 1]))

\* when the character is beyond the addressed line, an iteration of the
\* search loop moves the search to a later line or to a later index of its
\* line, so that the loop comes to the end of the text and the call returns
SearchMoves ==
  (/\ refs.pc = "scan" /\ refs.lineNum < Len(refs.lines)
   /\ refs.pos.Character > Len(refs.lines[refs.pos.Line + 1])) =>
    \/ searchIteration(refs).lineNum > refs.lineNum
    \/ searchIteration(refs).index > refs.index

\* C3: for every position-taking query (complete, hover, signatureHelp,
\* definition, references, documentHighlights) a character offset larger than
\* the length of the addressed line is treated as the line length and the
\* query returns normally, a line number at or beyond the line count of the
\* document yields the empty (null) result of the operation, and in neither
\* case does the operation fail with an out-of-bounds fault.
C3_PositionsTolerated ==
  NoFault /\ BeyondLastLine /\ BeyondLineEnd /\ SearchMoves

----------------------------------------------------------------------------
(* The one analyzer of the server, shared by all requests (server.go) *)

MaxSharedLines == 2
MaxSharedChar == 1
SharedLineVocabulary ==
  { <<"a"," ","="," ","1">>, <<"b"," ","="," ","2">>, <<"c","l","a","s","s"," ","F","o","o">>, <<"F","o","o">> }
SharedRequests ==
  { Request(op, d, [Line |-> l, Character |-> c], FALSE) :
      op \in {"analyze", "complete", "hover", "signatureHelp", "definition",
              "documentSymbols"},
      d \in UNION { [1..n -> SharedLineVocabulary] : n \in 1..MaxSharedLines },
      l \in 0..(MaxSharedLines - 1), c \in 0..MaxSharedChar }

\* the server reads the next request after it has replied to the last one
NextRequest ==
  /\ call.op # "off" /\ call.done /\ ~call.result.fault
  /\ call' \in SharedRequests
  /\ UNCHANGED analyzer
  /\ UNCHANGED exceptAnalyzer

InitShared ==
  /\ call \in SharedRequests
  /\ analyzer = NewCrystalAnalyzer
  /\ LexerOff /\ BalanceOff /\ RefsOff /\ ParserOff /\ ServerOff

NextShared ==
  \/ AnalyzeDocument \/ Completion \/ Hover \/ SignatureHelp \/ Definition
  \/ DocumentSymbols \/ NextRequest

SpecShared == InitShared /\ [][NextShared]_vars

\* the result of a call is one that a new analyzer may return for the
\* arguments of the call
ResultOfNewAnalyzer == (call.op # "off" /\ call.done) => call.result \in FreshResults(call)

\* C9: the result of every analyzer operation depends only on its own
\* arguments (document text, position, flags): after any sequence of earlier
\* calls through the one shared analyzer a call returns the result that a
\* new analyzer returns for these arguments, which the arguments determine;
\* so a call repeated on an unchanged document returns an identical result
\* and nothing of an earlier document appears in a later result.
C9_ArgumentsDetermineResult ==
  (call.op # "off" /\ call.done) => FreshResults(call) = { call.result }

----------------------------------------------------------------------------
(* Completion at an empty prefix and after a receiver *)

\* prefixes that a user may have typed at the cursor
TypedPrefixes == { <<"f">>, <<"f","o">>, <<"F","o">>, <<"c","l">>, <<"p">> }

\* the request c with typed put at the cursor, which then stands after it
WithTyped(c, typed) ==
  [c EXCEPT !.lines[c.pos.Line + 1] = TextBeforeCursor \o typed,
            !.pos.Character = Len(TextBeforeCursor) + Len(typed)]

\* the items of the result of the served call
ReturnedItems == Range(call.result.value)
ReturnedLabels == { item.Label : item \in ReturnedItems }

\* C11: in a non-method context, complete with an empty typed prefix (the
\* cursor is preceded on its line by nothing or only by whitespace) returns
\* every keyword, every built-in type, every local class and every local
\* variable, which is a superset of the items returned at that place for any
\* non-empty typed prefix.
C11_EmptyPrefixSuperset ==
  (/\ call.op = "complete" /\ call.done
   /\ call.pos.Line < Len(call.lines)
   /\ \A i \in 1..Len(TextBeforeCursor) : isSpace(TextBeforeCursor[i])) =>
     /\ Range(keywords) \subseteq ReturnedLabels
     /\ Range(builtinTypes) \subseteq ReturnedLabels
     /\ DOMAIN analyzer.context.Classes \subseteq ReturnedLabels
     /\ DOMAIN analyzer.context.Variables \subseteq ReturnedLabels
     /\ \A typed \in TypedPrefixes :
          \A result \in FreshResults(WithTyped(call, typed)) :
            Range(result.value) \subseteq ReturnedItems

MaxBodyLines == 4
BodyLineVocabulary ==
  { <<" "," ","d","e","f"," ","b","a","r">>, <<" "," ","d","e","f"," ","s","e","n","d">>, <<" "," ","e","n","d">>, <<" "," ","@","f","r","i","e","n","d"," ","="," ","1">>,
    <<" "," "," "," ","l","i","s","t",".","e","a","c","h"," ","d","o">> }
\* the class Foo with some lines in its body, before or after the assignment
\* of a new Foo to foo, and then the line being typed
ReceiverDocuments ==
  { IF classFirst
    THEN << <<"c","l","a","s","s"," ","F","o","o">> >> \o body \o << <<"e","n","d">>, <<"f","o","o"," ","="," ","F","o","o",".","n","e","w">>, <<"f","o","o",".">> >>
    ELSE << <<"f","o","o"," ","="," ","F","o","o",".","n","e","w">>, <<"c","l","a","s","s"," ","F","o","o">> >> \o body \o << <<"e","n","d">>, <<"f","o","o",".">> >> :
      body \in UNION { [1..n -> BodyLineVocabulary] : n \in 0..MaxBodyLines },
      classFirst \in BOOLEAN }

\* the cursor stands directly after the dot of the last line
InitReceiver ==
  /\ \E d \in ReceiverDocuments :
       call = Request("complete", d,
                      [Line |-> Len(d) - 1, Character |-> Len(d[Len(d)])], FALSE)
  /\ analyzer = NewCrystalAnalyzer
  /\ LexerOff /\ BalanceOff /\ RefsOff /\ ParserOff /\ ServerOff

NextReceiver == Completion

SpecReceiver == InitReceiver /\ [][NextReceiver]_vars

\* The blocks of a text, read off its lines: a line opens a block when it
\* begins with class or def or ends with do, and a bare end closes the block
\* opened last.  OpenAt(lines, n) is the list of the lines that opened the
\* blocks that are open after the first n lines, the innermost last.
RECURSIVE OpenAt(_, _)
OpenAt(lines, n) ==
  IF n = 0 THEN <<>>
  ELSE LET line == TrimSpace(lines[n])
           open == OpenAt(lines, n - 1)
       IN IF \/ HasPrefix(line, <<"c","l","a","s","s"," ">>) \/ HasPrefix(line, <<"d","e","f"," ">>)
             \/ HasSuffix(line, <<" ","d","o">>)
          THEN Append(open, n)
          ELSE IF line = <<"e","n","d">> /\ open # <<>>
          THEN SubSeq(open, 1, Len(open) - 1)
          ELSE open

\* the names m for which a line `def m` stands directly in the body of the
\* class that a line `class <className>` opens
InstanceMethodsOf(lines, className) ==
  { Slice(TrimSpace(lines[n]), 4, Len(TrimSpace(lines[n]))) :
      n \in { k \in 1..Len(lines) :
                /\ HasPrefix(TrimSpace(lines[k]), <<"d","e","f"," ">>)
                /\ OpenAt(lines, k - 1) # <<>>
                /\ TrimSpace(lines[OpenAt(lines, k - 1)[Len(OpenAt(lines, k - 1))]])
                     = <<"c","l","a","s","s"," ">> \o className } }

\* C12: for every document that declares a class C with an instance method m
\* (before or after the use) and whose only assignment to a variable v is a
\* line `v = C.new`, complete at the position directly after `v.` on a later
\* line returns an item labelled m with kind Method.
C12_ReceiverMethods ==
  (call.op = "complete" /\ call.done) =>
    \A m \in InstanceMethodsOf(call.lines, <<"F","o","o">>) :
      \E item \in ReturnedItems : item.Label = m /\ item.Kind = "Method"

----------------------------------------------------------------------------
(* Colons and identifier-shaped tokens of the tokenizer *)

\* the index of the first character at or after from that is not whitespace,
\* the length of the text when there is none
NextSolid(text, from) ==
  LET solid == { i \in from..(Len(text) - 1) : ~IsWhitespaceRun(<< At(text, i) >>) }
  IN IF solid = {} THEN Len(text)
     ELSE CHOOSE i \in solid : \A j \in solid : i <= j

\* the scan stands at a colon: the next character that is not whitespace
ScanAtColon ==
  /\ lexpc = "scan"
  /\ NextSolid(lexer.text, lexer.position) < Len(lexer.text)
  /\ At(lexer.text, NextSolid(lexer.text, lexer.position)) = ":"

\* the identifier-shaped run of text that begins at index from
IdentifierRun(text, from) ==
  LET stop == CHOOSE e \in from..Len(text) :
                /\ \A i \in from..(e - 1) : isAlphaNumeric(At(text, i)) \/ At(text, i) = "_"
                /\ e < Len(text) => ~(isAlphaNumeric(At(text, e)) \/ At(text, e) = "_")
  IN Slice(text, from, stop)

\* the token that the step has emitted
Emitted == lexer'.tokens[Len(lexer'.tokens)]
EmitsOne ==
  /\ Len(lexer'.tokens) = Len(lexer.tokens) + 1
  /\ SubSeq(lexer'.tokens, 1, Len(lexer.tokens)) = lexer.tokens

\* the number of colons of a text
Colons(text) == Cardinality({ i \in 1..Len(text) : text[i] = ":" })
\* the number of colons in the tokens of a list whose type is among types
RECURSIVE ColonsIn(_, _)
ColonsIn(tokens, types) ==
  IF tokens = <<>> THEN 0
  ELSE (IF tokens[1].Type \in types THEN Colons(tokens[1].Value) ELSE 0)
       + ColonsIn(Tail(tokens), types)

\* C13: tokenizing a colon followed by an identifier-shaped run (such as
\* `:sym`) yields two tokens, a one-character Operator token `:` followed by
\* a separate token for the run; every `:` outside strings and comments is
\* emitted as a single-character Operator token.
C13_ColonIsOperator ==
  [][ /\ (ScanAtColon /\ lexpc' = "scan") =>
           /\ EmitsOne
           /\ Emitted.Type = "Operator" /\ Emitted.Value = << ":" >>
           /\ Emitted.Length = 1
           /\ lexer'.position = NextSolid(lexer.text, lexer.position) + 1
      /\ (/\ lexpc = "scan" /\ lexpc' = "scan"
          /\ lexer.position > 0 /\ lexer.position < Len(lexer.text)
          /\ At(lexer.text, lexer.position - 1) = ":"
          /\ lexer.tokens # <<>>
          /\ lexer.tokens[Len(lexer.tokens)].Type = "Operator"
          /\ isLetter(At(lexer.text, lexer.position))
               \/ At(lexer.text, lexer.position) = "_") =>
           /\ EmitsOne
           /\ Emitted.Type \in {"Identifier", "Constant", "Keyword"}
           /\ HasPrefix(Emitted.Value, IdentifierRun(lexer.text, lexer.position))
           /\ Colons(Emitted.Value) = 0
      /\ (lexpc = "scan" /\ lexpc' = "done") =>
           /\ ColonsIn(lexer.tokens, {"Operator"})
                + ColonsIn(lexer.tokens, {"String", "Comment"})
                = Colons(lexer.text)
           /\ \A i \in 1..Len(lexer.tokens) :
                (/\ Colons(lexer.tokens[i].Value) > 0
                 /\ lexer.tokens[i].Type \notin {"String", "Comment"}) =>
                  /\ lexer.tokens[i].Type = "Operator"
                  /\ lexer.tokens[i].Value = << ":" >> ]_vars

\* the text :pA tokenized: the colon as an operator, then the identifier pA
C13_Witness ==
  /\ lexpc = "done"
  /\ lexer.text = << ":", "p", "A" >>
  /\ Len(lexer.tokens) = 2
  /\ lexer.tokens[1].Type = "Operator" /\ lexer.tokens[1].Value = << ":" >>
  /\ lexer.tokens[2].Type = "Identifier"
  /\ lexer.tokens[2].Value = << "p", "A" >>

\* C14: at a scan position holding `:` the tokenizer emits one Symbol token
\* whose text is the colon plus the identifier-shaped run that follows it.
C14_ColonIsSymbol ==
  [][ (ScanAtColon /\ lexpc' = "scan") =>
        /\ EmitsOne
        /\ Emitted.Type = "Symbol"
        /\ Emitted.Value =
             << ":" >> \o IdentifierRun(lexer.text,
                                        NextSolid(lexer.text, lexer.position) + 1) ]_vars

\* the tokens that begin with a letter or an underscore
IdentifierShaped(token) ==
  Len(token.Value) > 0 /\ (isLetter(token.Value[1]) \/ token.Value[1] = "_")

\* C15: every identifier-shaped token is classified by exactly one rule in
\* this order: Keyword if its text equals a member of the fixed keyword set,
\* otherwise Constant if its first character is an uppercase letter,
\* otherwise Identifier; so no keyword is emitted as Constant or Identifier
\* and no text that starts with an uppercase letter is emitted as Identifier.
C15_IdentifierClasses ==
  \A i \in 1..Len(lexer.tokens) :
    /\ IdentifierShaped(lexer.tokens[i]) <=>
         lexer.tokens[i].Type \in {"Keyword", "Constant", "Identifier"}
    /\ IdentifierShaped(lexer.tokens[i]) =>
         lexer.tokens[i].Type =
           IF \E k \in 1..Len(keywords) : keywords[k] = lexer.tokens[i].Value
           THEN "Keyword"
           ELSE IF lexer.tokens[i].Value[1] \in UpperLetters THEN "Constant"
           ELSE "Identifier"

\* the text `p A` tokenized: the keyword p and the constant A
C15_Witness ==
  /\ lexpc = "done"
  /\ Len(lexer.tokens) = 2
  /\ lexer.tokens[1].Type = "Keyword" /\ lexer.tokens[1].Value = << "p" >>
  /\ lexer.tokens[2].Type = "Constant" /\ lexer.tokens[2].Value = << "A" >>

----------------------------------------------------------------------------
(* GetDocumentFormat and GetFoldingRanges (analyzer.go) *)

\* strings.TrimRightFunc(line, r == ' ' || r == '\t')
trimRightBlank(line) ==
  LET RECURSIVE right(_)
      right(j) == IF j > 0 /\ At(line, j - 1) \in {" ", "\t"}
                  THEN right(j - 1) ELSE j
  IN Slice(line, 0, right(Len(line)))

\* the formatted text of one line
formattedLine(line) ==
  LET trimmed == trimRightBlank(line)
      content == TrimSpace(line)
  IN IF Contains(line, <<"\t">>) \/ TrimSpace(line) # <<>>
     THEN IF content # <<>>
          THEN IF \/ HasPrefix(content, <<"c","l","a","s","s"," ">>)
                  \/ HasPrefix(content, <<"m","o","d","u","l","e"," ">>)
               THEN content
               ELSE IF HasPrefix(content, <<"d","e","f"," ">>)
               THEN <<" "," ">> \o content
               ELSE IF content = <<"e","n","d">>
               THEN content
               ELSE trimmed
          ELSE <<>>
     ELSE line

GetDocumentFormat(lines) ==
  LET RECURSIVE loop(_, _)
      loop(edits, lineNum) ==
        IF lineNum >= Len(lines) THEN edits
        ELSE LET line == lines[lineNum + 1]
             IN loop(IF formattedLine(line) # line
                     THEN Append(edits,
                            [Range |->
                               [Start |-> [Line |-> lineNum, Character |-> 0],
                                End |-> [Line |-> lineNum,
                                         Character |-> Len(line)]],
                             NewText |-> formattedLine(line)])
                     ELSE edits,
                     lineNum + 1)
  IN loop(<<>>, 0)

\* ^\s*(class|module|def|if|unless|case|while|until|begin)\s  matches line
matchFoldingStart(line) ==
  LET a == skipSpaces(line, 0)
  IN \E kw \in { <<"c","l","a","s","s">>, <<"m","o","d","u","l","e">>, <<"d","e","f">>, <<"i","f">>, <<"u","n","l","e","s","s">>,
                 <<"c","a","s","e">>, <<"w","h","i","l","e">>, <<"u","n","t","i","l">>, <<"b","e","g","i","n">> } :
       /\ hasPrefixAt(line, a, kw)
       /\ a + Len(kw) < Len(line)
       /\ isSpace(At(line, a + Len(kw)))

GetFoldingRanges(lines) ==
  LET RECURSIVE loop(_, _, _)
      loop(ranges, stack, lineNum) ==
        IF lineNum >= Len(lines) THEN ranges
        ELSE LET line == lines[lineNum + 1]
                 trimmed == TrimSpace(line)
                 pushed == IF matchFoldingStart(line)
                           THEN Append(stack, [Line |-> lineNum, Kind |-> "region"])
                           ELSE stack
                 closes == /\ trimmed = <<"e","n","d">> \/ HasPrefix(trimmed, <<"e","n","d"," ">>)
                           /\ Len(pushed) > 0
                 start == pushed[Len(pushed)]
             IN loop(IF closes /\ lineNum > start.Line
                     THEN Append(ranges, [StartLine |-> start.Line,
                                          EndLine |-> lineNum,
                                          Kind |-> start.Kind])
                     ELSE ranges,
                     IF closes THEN SubSeq(pushed, 1, Len(pushed) - 1)
                     ELSE pushed,
                     lineNum + 1)
  IN loop(<<>>, <<>>, 0)

Formatting ==
  /\ call.op = "formatting" /\ ~call.done
  /\ call' = [call EXCEPT !.done = TRUE,
                          !.result = Returned(GetDocumentFormat(call.lines))]
  /\ UNCHANGED analyzer
  /\ UNCHANGED exceptAnalyzer

FoldingRange ==
  /\ call.op = "foldingRange" /\ ~call.done
  /\ call' = [call EXCEPT !.done = TRUE,
                          !.result = Returned(GetFoldingRanges(call.lines))]
  /\ UNCHANGED analyzer
  /\ UNCHANGED exceptAnalyzer

----------------------------------------------------------------------------
(* The server (server.go).  The connection hands the incoming messages to
   Handle one at a time.  A handler that panics inside the analyzer ends the
   process, and one that does not return keeps every later message waiting:
   in both cases the server stays "busy" and sends nothing more.  A stored
   document holds its text as one string, newline characters included. *)

\* handling is the message that Handle was called with last, until the reply
\* of a query that went to the analyzer, and sent is what the server has sent
\* since that call
NoMessage == [method |-> "none", uri |-> "", params |-> <<>>]
Message(method, uri, params) ==
  [method |-> method, uri |-> uri, params |-> params]
NewServer ==
  [pc |-> "idle", documents |-> EmptyMap, handling |-> NoMessage,
   sent |-> <<>>]

splitLines(text) ==
  LET RECURSIVE loop(_, _, _)
      loop(lines, start, i) ==
        IF i >= Len(text)
        THEN IF start < Len(text)
             THEN Append(lines, Slice(text, start, Len(text))) ELSE lines
        ELSE IF At(text, i) = "\n"
             THEN loop(Append(lines, Slice(text, start, i)), i + 1, i + 1)
             ELSE loop(lines, start, i + 1)
  IN loop(<<>>, 0, 0)

\* a content change: Range is empty (nil) or holds one range
FullChange(text) == [Range |-> <<>>, Text |-> text]
RangeChange(start, end, text) ==
  [Range |-> << [Start |-> start, End |-> end] >>, Text |-> text]

applyTextChange_NoNewline(text, change) ==
  LET lines == splitLines(text)
      RECURSIVE offset(_, _, _)
      offset(sum, i, pos) ==
        IF i < pos.Line /\ i < Len(lines)
        THEN offset(sum + Len(lines[i + 1]), i + 1, pos)
        ELSE sum + pos.Character
      clamp(n) == IF n > Len(text) THEN Len(text) ELSE n
      startOffset == clamp(offset(0, 0, change.Range[1].Start))
      endOffset == clamp(offset(0, 0, change.Range[1].End))
  IN IF change.Range = <<>> THEN change.Text
     ELSE Slice(text, 0, startOffset) \o change.Text
            \o Slice(text, endOffset, Len(text))

applyTextChange(text, change) ==
  LET lines == splitLines(text)
      RECURSIVE offset(_, _, _)
      offset(sum, i, pos) ==
        IF i < pos.Line /\ i < Len(lines)
        THEN offset(sum + Len(lines[i + 1]) + 1, i + 1, pos)
        ELSE sum + pos.Character
      clamp(n) == IF n > Len(text) THEN Len(text) ELSE n
      startOffset == clamp(offset(0, 0, change.Range[1].Start))
      endOffset == clamp(offset(0, 0, change.Range[1].End))
  IN IF change.Range = <<>> THEN change.Text
     ELSE Slice(text, 0, startOffset) \o change.Text
            \o Slice(text, endOffset, Len(text))

\* the loop of handleTextDocumentDidChange over the content changes
applyContentChanges(text, changes) ==
  LET RECURSIVE loop(_, _)
      loop(t, i) ==
        IF i > Len(changes) THEN t
        ELSE loop(IF changes[i].Range = <<>> THEN changes[i].Text
                  ELSE applyTextChange(t, changes[i]),
                  i + 1)
  IN loop(text, 1)

\* the lines the analyzer reads of a stored document
LinesOf(doc) == Split(doc.Text, "\n")

publishDiagnostics(uri, diagnostics) ==
  [method |-> "textDocument/publishDiagnostics", uri |-> uri,
   body |-> diagnostics]

\* conn.Reply with the result of a query
ReplyShape(op) ==
  IF op = "complete" THEN "CompletionList"
  ELSE IF op \in {"hover", "signatureHelp"} THEN "pointer"
  ELSE "list"
Reply(op, uri, value) ==
  [method |-> op, uri |-> uri,
   body |-> [shape |-> ReplyShape(op), value |-> value]]

MaxVersion == 2
MaxServerChar == 3
ServerURIs == {"a.cr", "b.cr"}
ServerTexts == { <<>>, <<"f","(">>, <<"a","b","\n">> }
ServerChanges ==
  { FullChange(t) : t \in ServerTexts }
    \cup { RangeChange([Line |-> 0, Character |-> 0],
                       [Line |-> 0, Character |-> 1], <<>>) }
ServerChangeLists ==
  { <<c>> : c \in ServerChanges }
    \cup { <<c, d>> : c \in { FullChange(<<"a","b","\n">>) },
                      d \in { ch \in ServerChanges : ch.Range # <<>> } }
ServerQueries ==
  { <<op, FALSE>> :
      op \in {"complete", "hover", "signatureHelp", "definition",
              "documentSymbols", "formatting", "foldingRange",
              "references", "documentHighlights"} }
    \cup { <<"references", TRUE>> }
ServerPositions ==
  { [Line |-> 0, Character |-> c] : c \in {0, MaxServerChar} }

StoreAndPublish_SkipEmpty(message, uri, text, version) ==
  /\ analyzer' = parseDocumentStructure(analyzer, Split(text, "\n"))
  /\ server' =
       [server EXCEPT
          !.documents = Put(@, uri, [Text |-> text, Version |-> version]),
          !.handling = message,
          !.sent = IF getDiagnostics(analyzer'.context, Split(text, "\n")) = <<>>
                   THEN <<>>
                   ELSE << publishDiagnostics(uri,
                             getDiagnostics(analyzer'.context,
                                            Split(text, "\n"))) >>]

\* the common end of didOpen and didChange: the document is stored with its
\* text and version, analysed, and its diagnostics are published
StoreAndPublish(message, uri, text, version) ==
  /\ analyzer' = parseDocumentStructure(analyzer, Split(text, "\n"))
  /\ server' =
       [server EXCEPT
          !.documents = Put(@, uri, [Text |-> text, Version |-> version]),
          !.handling = message,
          !.sent = << publishDiagnostics(uri,
                        getDiagnostics(analyzer'.context,
                                       Split(text, "\n"))) >>]

DidOpen ==
  /\ server.pc = "idle"
  /\ \E uri \in ServerURIs : \E text \in ServerTexts : \E version \in 1..MaxVersion :
       StoreAndPublish(Message("didOpen", uri,
                         [text |-> text, version |-> version]),
                       uri, text, version)
  /\ UNCHANGED <<lexer, lexpc, balance, refs, parser, call>>

DidChange ==
  /\ server.pc = "idle"
  /\ \E uri \in ServerURIs : \E changes \in ServerChangeLists :
     \E version \in 1..MaxVersion :
       IF uri \notin DOMAIN server.documents
       THEN /\ server' =
                 [server EXCEPT
                    !.handling =
                       Message("didChange", uri,
                               [changes |-> changes, version |-> version]),
                    !.sent = <<>>]
            /\ UNCHANGED analyzer
       ELSE StoreAndPublish(
              Message("didChange", uri,
                      [changes |-> changes, version |-> version]),
              uri, applyContentChanges(server.documents[uri].Text, changes),
              version)
  /\ UNCHANGED <<lexer, lexpc, balance, refs, parser, call>>

DidClose ==
  /\ server.pc = "idle"
  /\ \E uri \in ServerURIs :
       server' = [server EXCEPT
                    !.documents = [u \in DOMAIN @ \ {uri} |-> @[u]],
                    !.handling = Message("didClose", uri, <<>>),
                    !.sent = <<>>]
  /\ UNCHANGED <<lexer, lexpc, balance, refs, parser, analyzer, call>>

\* The nine query handlers up to the call of the analyzer: the reply of the
\* empty result for a URI that is not open, else the call on the stored
\* document.
Query ==
  /\ server.pc = "idle"
  /\ \E q \in ServerQueries : \E uri \in ServerURIs : \E pos \in ServerPositions :
       IF uri \notin DOMAIN server.documents
       THEN /\ server' =
                 [server EXCEPT
                    !.handling =
                       Message(q[1], uri,
                               [pos |-> pos, includeDeclaration |-> q[2]]),
                    !.sent = << Reply(q[1], uri, <<>>) >>]
            /\ UNCHANGED <<call, refs>>
       ELSE /\ server' =
                 [server EXCEPT
                    !.pc = "busy",
                    !.handling =
                       Message(q[1], uri,
                               [pos |-> pos, includeDeclaration |-> q[2]]),
                    !.sent = <<>>]
            /\ IF q[1] \in {"references", "documentHighlights"}
               THEN /\ refs' = [op |-> q[1], includeDeclaration |-> q[2],
                                lines |-> LinesOf(server.documents[uri]),
                                pos |-> pos, word |-> <<>>, lineNum |-> 0,
                                index |-> 0, locations |-> <<>>, pc |-> "call"]
                    /\ UNCHANGED call
               ELSE /\ call' = Request(q[1], LinesOf(server.documents[uri]),
                                       pos, q[2])
                    /\ UNCHANGED refs
  /\ UNCHANGED <<lexer, lexpc, balance, parser, analyzer>>

\* The rest of a query handler: conn.Reply with what the analyzer returned.
QueryReply ==
  /\ server.pc = "busy"
  /\ \/ /\ call.op # "off" /\ call.done /\ ~call.result.fault
        /\ server' = [server EXCEPT
                        !.pc = "idle",
                        !.handling = NoMessage,
                        !.sent = << Reply(server.handling.method,
                                          server.handling.uri,
                                          call.result.value) >>]
     \/ /\ refs.pc = "done"
        /\ server' = [server EXCEPT
                        !.pc = "idle",
                        !.handling = NoMessage,
                        !.sent = << Reply(server.handling.method,
                                          server.handling.uri,
                                          refs.locations) >>]
  /\ call' = [op |-> "off"]
  /\ refs' = [pc |-> "off"]
  /\ UNCHANGED <<lexer, lexpc, balance, parser, analyzer>>

InitServer ==
  /\ server = NewServer
  /\ analyzer = NewCrystalAnalyzer
  /\ call = [op |-> "off"]
  /\ LexerOff /\ BalanceOff /\ RefsOff /\ ParserOff

NextServer ==
  \/ DidOpen \/ DidChange \/ DidClose \/ Query \/ QueryReply
  \/ Completion \/ Hover \/ SignatureHelp \/ Definition \/ DocumentSymbols
  \/ Formatting \/ FoldingRange
  \/ SearchEnter \/ ReferencesIterate \/ HighlightsIterate \/ SearchReturn

SpecServer == InitServer /\ [][NextServer]_vars

\* the queries among the messages
QueryMethods == { q[1] : q \in ServerQueries }

\* A reply for a URI that is not open is the empty result of its operation,
\* and the analyzer runs for open URIs only.
ClosedGetEmpty ==
  /\ \A i \in 1..Len(server.sent) :
       (/\ server.sent[i].method \in QueryMethods
        /\ server.sent[i].uri \notin DOMAIN server.documents) =>
          /\ server.handling.method = server.sent[i].method
          /\ server.sent[i].body =
               [shape |-> ReplyShape(server.sent[i].method), value |-> <<>>]
  /\ server.pc = "idle" => call = [op |-> "off"] /\ refs = [pc |-> "off"]
  /\ server.pc = "busy" => server.handling.uri \in DOMAIN server.documents

\* A query that goes to the analyzer goes there with the stored text, the
\* position and the flag of the query.
OpenReadStored ==
  server.pc = "busy" =>
    LET asked == IF call.op # "off" THEN call ELSE refs
    IN /\ asked.op = server.handling.method
       /\ asked.lines = LinesOf(server.documents[server.handling.uri])
       /\ asked.pos = server.handling.params.pos
       /\ asked.includeDeclaration = server.handling.params.includeDeclaration

\* The stored text is the text of the last didOpen, or the outcome of the
\* content changes of the last didChange on the text stored before it.
StoredIsLatest ==
  [][\A uri \in ServerURIs :
       LET was == uri \in DOMAIN server.documents
           is == uri \in DOMAIN server'.documents
           message == server'.handling
           named == message.uri = uri /\ server' # server
       IN /\ named /\ message.method = "didOpen" =>
               is /\ server'.documents[uri].Text = message.params.text
          /\ named /\ message.method = "didChange" /\ was =>
               /\ is
               /\ server'.documents[uri].Text =
                    applyContentChanges(server.documents[uri].Text,
                                        message.params.changes)
          /\ named /\ message.method = "didClose" => ~is
          /\ ~(named /\ message.method \in {"didOpen", "didChange", "didClose"}) =>
               /\ is = was
               /\ was => server'.documents[uri] = server.documents[uri]]_vars

\* A query that went to the analyzer comes back: the call does not end in a
\* fault, and the search loop of references and documentHighlights moves on.
QueryAnswered ==
  server.pc = "busy" =>
    /\ call.op # "off" => ~(call.done /\ call.result.fault)
    /\ (refs.pc = "scan" /\ refs.lineNum < Len(refs.lines)) =>
         \/ searchIteration(refs).lineNum > refs.lineNum
         \/ searchIteration(refs).index > refs.index

\* C16: after any sequence of didOpen, didChange and didClose notifications,
\* a query for a URI that is not open (never opened, or closed since) is
\* answered with the empty result of its operation without a call of the
\* analyzer, and a query for an open URI is answered from the text as of
\* the latest applied change.
C16_QueriesByLifecycle ==
  ClosedGetEmpty /\ OpenReadStored /\ QueryAnswered

----------------------------------------------------------------------------
(* getWordAtPosition on its own (analyzer.go) *)

\* a call getWordAtPosition(line, char): the line is the one line of the
\* request and char the character of its position
WordAtPosition ==
  /\ call.op = "getWordAtPosition" /\ ~call.done
  /\ call' = [call EXCEPT
                !.done = TRUE,
                !.result = Returned(getWordAtPosition(call.lines[1],
                                                      call.pos.Character))]
  /\ UNCHANGED analyzer
  /\ UNCHANGED exceptAnalyzer

MaxWordLineLen == 4
WordAlphabet == {"a", "?", " ", "."}
WordLines == UNION {[1..n -> WordAlphabet] : n \in 0..MaxWordLineLen}

InitWord ==
  /\ \E line \in WordLines : \E char \in (-2)..(MaxWordLineLen + 2) :
       call = Request("getWordAtPosition", <<line>>,
                      [Line |-> 0, Character |-> char], FALSE)
  /\ analyzer = NewCrystalAnalyzer
  /\ LexerOff /\ BalanceOff /\ RefsOff /\ ParserOff /\ ServerOff

NextWord == WordAtPosition

SpecWord == InitWord /\ [][NextWord]_vars

\* the maximal runs of word characters of line, as pairs of the first index
\* and the index after the last
WordCharRuns(line) ==
  { r \in (0..Len(line)) \X (0..Len(line)) :
      /\ r[1] < r[2]
      /\ \A i \in r[1]..(r[2] - 1) : isWordChar(At(line, i))
      /\ r[1] = 0 \/ ~isWordChar(At(line, r[1] - 1))
      /\ r[2] = Len(line) \/ ~isWordChar(At(line, r[2])) }

\* the runs that contain index c or end immediately before it
RunsAt(line, c) ==
  { r \in WordCharRuns(line) : (r[1] <= c /\ c < r[2]) \/ r[2] = c }

\* C17: getWordAtPosition(line, c) returns the maximal run of word
\* characters (letters, digits, _, ?, !) of the line that contains index c
\* or ends immediately before index c, with c first clamped to the last
\* index when it is past the end of the line; it returns the empty string
\* when the line is empty, when c is negative, or when there is no such run.
C17_WordAtPosition ==
  (call.op = "getWordAtPosition" /\ call.done) =>
    LET line == call.lines[1]
        char == call.pos.Character
        c == IF char >= Len(line) THEN Len(line) - 1 ELSE char
        word == call.result.value
    IN /\ ~call.result.fault
       /\ (Len(line) = 0 \/ char < 0) => word = <<>>
       /\ (Len(line) > 0 /\ char >= 0) =>
            /\ Cardinality(RunsAt(line, c)) <= 1
            /\ RunsAt(line, c) = {} => word = <<>>
            /\ \A r \in RunsAt(line, c) : word = Slice(line, r[1], r[2])

\* a character past the end of a line that ends with a non-word character:
\* the word is the run that ends immediately before the last index
C17_Witness ==
  /\ call.op = "getWordAtPosition" /\ call.done
  /\ call.pos.Character > Len(call.lines[1])
  /\ call.lines[1] = <<"a","?",".">>
  /\ call.result.value = <<"a","?">>

----------------------------------------------------------------------------
(* Token positions and GetTokenAtPosition (lexer.go) *)

\* the first token whose line is the line of pos and whose span holds the
\* character of pos, or nothing (nil)
GetTokenAtPosition(tokens, pos) ==
  LET hits == { i \in 1..Len(tokens) :
                  /\ tokens[i].Position.Line = pos.Line
                  /\ pos.Character >= tokens[i].Position.Character
                  /\ pos.Character < tokens[i].Position.Character
                                       + tokens[i].Length }
  IN IF hits = {} THEN <<>>
     ELSE << tokens[CHOOSE i \in hits : \A j \in hits : i <= j] >>

MaxPlacedTextLen == 4
PlacedAlphabet == {"\"", "\n", "p", " "}
PlacedTexts == UNION {[1..n -> PlacedAlphabet] : n \in 0..MaxPlacedTextLen}
PlacedPositions ==
  { [Line |-> l, Character |-> c] :
      l \in 0..MaxPlacedTextLen, c \in 0..MaxPlacedTextLen }

\* a call of GetTokenAtPosition on the lexer after Tokenize
TokenAtPosition ==
  /\ lexpc = "done"
  /\ \E pos \in PlacedPositions :
       call' = [op |-> "GetTokenAtPosition", pos |-> pos, done |-> TRUE,
                result |-> Returned(GetTokenAtPosition(lexer.tokens, pos))]
  /\ UNCHANGED <<lexer, lexpc, balance, refs, parser, analyzer, server>>

InitPlaced ==
  /\ lexer \in {NewCrystalLexer(t) : t \in PlacedTexts}
  /\ lexpc = "new"
  /\ BalanceOff /\ RefsOff /\ ParserOff /\ AnalyzerOff /\ ServerOff

NextPlaced ==
  TokenizeBegin \/ TokenizeStep \/ TokenizeReturn \/ TokenAtPosition

SpecPlaced == InitPlaced /\ [][NextPlaced]_vars

\* the line and the character of the offset in the text, counted from the
\* newline characters before it
PlaceOf(text, offset) ==
  LET newlines == { i \in 0..(offset - 1) : At(text, i) = "\n" }
      lineStart == IF newlines = {} THEN 0
                   ELSE 1 + CHOOSE i \in newlines : \A j \in newlines : j <= i
  IN [Line |-> Cardinality(newlines), Character |-> offset - lineStart]

\* the offset of the first character of each token: the span of a token
\* ends where the scan stands after the iteration that emits it
TokenOffsets(text) ==
  LET RECURSIVE scan(_, _)
      scan(l, offsets) ==
        IF ~(l.position < Len(l.text)) THEN offsets
        ELSE LET m == TokenizeIteration(l)
             IN scan(m, IF Len(m.tokens) > Len(l.tokens)
                        THEN Append(offsets,
                               m.position - m.tokens[Len(m.tokens)].Length)
                        ELSE offsets)
  IN scan(NewCrystalLexer(text), <<>>)

\* C18: every token of Tokenize has as Position.Line the number of newline
\* characters before its first character and as Position.Character the
\* distance of that character from the start of its line, also when a
\* newline stands inside a string literal or an unterminated string; and so
\* GetTokenAtPosition at the line and column of the first character of a
\* token returns that token.
C18_TokenPositions ==
  lexpc = "done" =>
    \A i \in 1..Len(lexer.tokens) :
      LET place == PlaceOf(lexer.text, TokenOffsets(lexer.text)[i])
      IN /\ lexer.tokens[i].Position = place
         /\ (call.op = "GetTokenAtPosition" /\ call.pos = place) =>
              call.result.value = << lexer.tokens[i] >>

----------------------------------------------------------------------------
(* The occurrences of `end` on one line of the balance check *)

\* the indexes of line at which a standalone `end` begins
EndOccurrences(line) ==
  { i \in 0..(Len(line) - 3) :
      /\ Slice(line, i, i + 3) = <<"e","n","d">>
      /\ (i = 0 \/ ~isRegexWordChar(At(line, i - 1)))
      /\ (i + 3 = Len(line) \/ ~isRegexWordChar(At(line, i + 3))) }

\* C19: in the block-balance check every occurrence of a standalone `end`
\* is one transition: a line with k occurrences of `end` pops k stack
\* entries, and reports one 'unexpected end' for each occurrence that finds
\* the stack empty.
C19_EndOccurrences ==
  [][(balance.pc = "scan" /\ balance.lineNum < Len(balance.lines)) =>
       LET line == balance.lines[balance.lineNum + 1]
           k == Cardinality(EndOccurrences(line))
           pushed == Len(pushOpeners(balance.stack, line, balance.lineNum))
           popped == IF k <= pushed THEN k ELSE pushed
       IN /\ Len(balance'.stack) = pushed - popped
          /\ Len(balance'.diagnostics) = Len(balance.diagnostics) + (k - popped)
          /\ \A i \in (Len(balance.diagnostics) + 1)..Len(balance'.diagnostics) :
               balance'.diagnostics[i].Message = [kind |-> "UnexpectedEnd"]]_vars

----------------------------------------------------------------------------
(* The scope of the current class in the structural parse *)

MaxScopeLines == 4
ScopeLineVocabulary ==
  { <<"c","l","a","s","s"," ","A">>, <<"d","e","f"," ","x">>, <<"d","e","f"," ","s","e","n","d">>, <<"p","r","o","p","e","r","t","y"," ","f","r","i","e","n","d">>, <<"i","f"," ","v">>,
    <<"e","n","d">> }

InitScope ==
  /\ \E n \in 1..MaxScopeLines : \E d \in [1..n -> ScopeLineVocabulary] :
       parser = parseStart(NewCrystalAnalyzer, d)
  /\ LexerOff /\ BalanceOff /\ RefsOff /\ AnalyzerOff /\ ServerOff

NextScope == ParseLine \/ ParseReturn

SpecScope == InitScope /\ [][NextScope]_vars

\* the name that a line declares a class with
ClassNamed(line) ==
  FindStringSubmatch(
    <<Bol, Star("s"), Lit(<<"c","l","a","s","s">>), Plus("s"), Open(1), Plus("w"), Close(1)>>,
    line)

\* The class that is open after the first n lines, with the line that
\* opened it, when a class is opened by its class line and closed by a bare
\* `end` line on which the nesting-depth check balances, and by nothing else.
RECURSIVE ScopeAfter(_, _)
ScopeAfter(lines, n) ==
  IF n = 0 THEN <<>>
  ELSE LET line == lines[n]
           opened == IF ClassNamed(line) # <<>>
                     THEN << [name |-> ClassNamed(line)[1][1], line |-> n - 1] >>
                     ELSE ScopeAfter(lines, n - 1)
       IN IF /\ opened # <<>>
             /\ TrimSpace(line) = <<"e","n","d">>
             /\ isClassEnd(lines, n - 1, opened[1].line)
          THEN <<>>
          ELSE opened

\* the method names that a line declares: a def, or a property with its
\* getter and setter
DeclaredBy(line) ==
  LET def == FindStringSubmatch(defPattern(<<>>), line)
      property == FindStringSubmatch(
                    <<Bol, Star("s"), Lit(<<"p","r","o","p","e","r","t","y">>), Plus("s"),
                      Open(1), Plus("w"), Close(1)>>, line)
  IN (IF def # <<>> THEN { def[1][1] } ELSE {})
       \cup (IF property # <<>>
             THEN { property[1][1], property[1][1] \o <<"=">> } ELSE {})

\* the method names registered under the classes of a context
Registered(context) ==
  UNION { { <<c, m>> : m \in DOMAIN context.Classes[c].Methods } :
          c \in DOMAIN context.Classes }

\* C20: during a structural parse the current class, once opened by a
\* `class Name` line, is closed only by a bare `end` line for which the
\* nesting-depth check between the class line and that line balances; no
\* other line closes it, so every def and property line between a class line
\* and its matching end is registered under that class, and no declaration
\* after that end is.
C20_ClassScope ==
  [][(parser.pc = "scan" /\ parser.lineNum < Len(parser.lines)) =>
       LET line == parser.lines[parser.lineNum + 1]
           scope == IF ClassNamed(line) # <<>>
                    THEN << ClassNamed(line)[1][1] >>
                    ELSE parser.currentClass
           after == ScopeAfter(parser.lines, parser.lineNum + 1)
       IN /\ parser'.currentClass = [i \in 1..Len(after) |-> after[i].name]
          /\ scope # <<>> =>
               \A m \in DeclaredBy(line) :
                 <<scope[1], m>> \in Registered(parser'.context)
          /\ scope = <<>> =>
               Registered(parser'.context) = Registered(parser.context)]_vars

----------------------------------------------------------------------------
(* parseParameters on its own (parser.go) *)

\* a call parseParameters(paramsStr): the string is the one line of the
\* request
ParseParameters ==
  /\ call.op = "parseParameters" /\ ~call.done
  /\ call' = [call EXCEPT
                !.done = TRUE,
                !.result = Returned(parseParameters(call.lines[1]))]
  /\ UNCHANGED analyzer
  /\ UNCHANGED exceptAnalyzer

MaxParameters == 2
ParameterSources ==
  { <<"a">>, <<"@","a">>, <<"a"," ",":"," ","T">>, <<"a"," ","="," ","1">>, <<" ","b","=","2">>, <<"a"," ",":"," ","T"," ","="," ","1">>,
    <<"@","a"," ",":"," ","T"," ","="," ","1">>, <<"b",":","U">>, <<>> }
ParameterLists ==
  UNION { { Join(list, <<",">>) : list \in [1..n -> ParameterSources] } :
          n \in 1..MaxParameters }

InitParameters ==
  /\ \E paramsStr \in ParameterLists :
       call = Request("parseParameters", <<paramsStr>>, NoPosition, FALSE)
  /\ analyzer = NewCrystalAnalyzer
  /\ LexerOff /\ BalanceOff /\ RefsOff /\ ParserOff /\ ServerOff

NextParameters == ParseParameters

SpecParameters == InitParameters /\ [][NextParameters]_vars

\* the source text of the default of a parameter source: what stands after
\* its first `=`, without the spaces around it; empty when there is no `=`
DefaultSource(source) ==
  IF Contains(source, <<"=">>)
  THEN TrimSpace(Slice(source, Index(source, 0, <<"=">>) + 1, Len(source)))
  ELSE <<>>

\* the comma-separated parameter sources of a parameter string
SourcesOf(paramsStr) ==
  SelectSeq(Split(paramsStr, ","), LAMBDA part : TrimSpace(part) # <<>>)

\* C21: for every comma-separated parameter of a parsed method declaration,
\* whether or not it declares a type, the ParameterInfo has isOptional =
\* true if and only if the parameter source holds a `= default` part, and
\* its default-value field holds the source text of that default.
C21_OptionalParameters ==
  (call.op = "parseParameters" /\ call.done) =>
    LET sources == SourcesOf(call.lines[1])
        parameters == call.result.value
    IN /\ Len(parameters) = Len(sources)
       /\ \A i \in 1..Len(sources) :
            /\ parameters[i].IsOptional = (DefaultSource(sources[i]) # <<>>)
            /\ parameters[i].DefaultValue = DefaultSource(sources[i])

----------------------------------------------------------------------------
(* The type of a variable that is assigned several times (completion.go) *)

MaxAssignments == 3
AssignmentVocabulary == { <<"v"," ","="," ","\"","a","\"">>, <<"v"," ","="," ","[","1","]">>, <<"v"," ","="," ","1">> }
\* some assignments to v, and among them the line being typed: `v.`
AssignedDocuments ==
  UNION { { SubSeq(d, 1, k) \o << <<"v",".">> >> \o SubSeq(d, k + 1, n) :
              d \in [1..n -> AssignmentVocabulary], k \in 0..n } :
          n \in 0..MaxAssignments }

InitAssigned ==
  /\ \E d \in AssignedDocuments :
     \E l \in { i \in 0..(Len(d) - 1) : d[i + 1] = <<"v",".">> } :
       call = Request("complete", d, [Line |-> l, Character |-> 2], FALSE)
  /\ analyzer = NewCrystalAnalyzer
  /\ LexerOff /\ BalanceOff /\ RefsOff /\ ParserOff /\ ServerOff

NextAssigned == Completion

SpecAssigned == InitAssigned /\ [][NextAssigned]_vars

\* the lines at or before the line n that assign to v, and the type of the
\* value that a line assigns
AssignmentsUpTo(lines, n) ==
  { i \in 0..n : HasPrefix(lines[i + 1], <<"v"," ","="," ">>) }
AssignedType(line) ==
  inferTypeFromAssignment(Slice(line, 4, Len(line)))

\* C22: when a variable is assigned more than once in a document, the type
\* inferred for it at a query position is the type of the latest assignment
\* at or before the query line; assignments on later lines never change the
\* answer.  The type shows in the methods offered after `v.`.
C22_LatestAssignment ==
  (/\ call.op = "complete" /\ call.done
   /\ AssignmentsUpTo(call.lines, call.pos.Line) # {}) =>
     LET before == AssignmentsUpTo(call.lines, call.pos.Line)
         latest == CHOOSE i \in before : \A j \in before : j <= i
     IN ReturnedLabels =
          Range(getBuiltInMethodsForType(AssignedType(call.lines[latest + 1])))

----------------------------------------------------------------------------
(* Folding ranges against the pairing of the balance check *)

MaxFoldLines == 4
FoldLineVocabulary ==
  { <<"i","f"," ","x">>, <<"d","e","f"," ","f">>, <<"f","o","r"," ","x">>, <<"u","n","t","i","l"," ","x">>, <<"e","n","d">>, <<"x">>,
    <<"i","f"," ","x"," ","e","n","d">> }
FoldingDocuments ==
  UNION { [1..n -> FoldLineVocabulary] : n \in 1..MaxFoldLines }

InitFolding ==
  /\ \E d \in FoldingDocuments :
       call = Request("foldingRange", d, [Line |-> 0, Character |-> 0], FALSE)
  /\ analyzer = NewCrystalAnalyzer
  /\ LexerOff /\ BalanceOff /\ RefsOff /\ ParserOff /\ ServerOff

NextFolding == FoldingRange

SpecFolding == InitFolding /\ [][NextFolding]_vars

\* the blocks of checkStructureBalance: each `end` line that pops, with the
\* line of the opener it pops, in the order of the `end` lines
PairedBlocks(lines) ==
  LET RECURSIVE run(_, _)
      run(b, pairs) ==
        IF b.lineNum >= Len(lines) THEN pairs
        ELSE LET line == lines[b.lineNum + 1]
                 pushed == pushOpeners(b.stack, line, b.lineNum)
             IN run(balanceLine(b),
                    IF matchWord(line, <<"e","n","d">>) /\ Len(pushed) > 0
                    THEN Append(pairs, [StartLine |-> pushed[Len(pushed)].line,
                                        EndLine |-> b.lineNum])
                    ELSE pairs)
  IN run(balanceStart(lines), <<>>)

\* C23: for a document with no balance error, foldingRanges returns exactly
\* one range per block of the balance check whose opener and `end` are on
\* different lines, from the opener's line to the line of its `end`.
C23_FoldingMatchesBalance ==
  (/\ call.op = "foldingRange" /\ call.done
   /\ checkStructureBalance(call.lines) = <<>>) =>
     LET blocks == SelectSeq(PairedBlocks(call.lines),
                             LAMBDA p : p.StartLine # p.EndLine)
     IN call.result.value =
          [i \in 1..Len(blocks) |->
             [StartLine |-> blocks[i].StartLine,
              EndLine |-> blocks[i].EndLine, Kind |-> "region"]]

----------------------------------------------------------------------------
(* Formatting twice *)

MaxFormatLineLen == 3
MaxFormatLines == 2
FormatAlphabet == { " ", "\t", "a" }
FormatLineVocabulary ==
  UNION { [1..n -> FormatAlphabet] : n \in 0..MaxFormatLineLen }
    \cup { <<"d","e","f"," ","f"," ">>, <<" ","c","l","a","s","s"," ","A">>, <<"\t","e","n","d"," ">> }
FormatDocuments ==
  UNION { [1..n -> FormatLineVocabulary] : n \in 1..MaxFormatLines }

InitFormat ==
  /\ \E d \in FormatDocuments :
       call = Request("formatting", d, [Line |-> 0, Character |-> 0], FALSE)
  /\ analyzer = NewCrystalAnalyzer
  /\ LexerOff /\ BalanceOff /\ RefsOff /\ ParserOff /\ ServerOff

NextFormat == Formatting

SpecFormat == InitFormat /\ [][NextFormat]_vars

\* the document after the edits: each edit replaces the whole of its line
ApplyLineEdits(lines, edits) ==
  [n \in 1..Len(lines) |->
     IF \E k \in 1..Len(edits) : edits[k].Range.Start.Line = n - 1
     THEN edits[CHOOSE k \in 1..Len(edits) :
                  edits[k].Range.Start.Line = n - 1].NewText
     ELSE lines[n]]

EndsBlank(line) == Len(line) > 0 /\ line[Len(line)] \in {" ", "\t"}

\* C24: after the formatting edits are applied no line ends with a space or
\* a tab, whitespace-only lines included, and formatting the result again
\* returns no edits.
C24_FormatOnce ==
  (call.op = "formatting" /\ call.done) =>
     LET after == ApplyLineEdits(call.lines, call.result.value)
     IN /\ \A n \in 1..Len(after) : ~EndsBlank(after[n])
        /\ GetDocumentFormat(after) = <<>>

----------------------------------------------------------------------------
(* Class methods and instance methods in completion *)

MaxClassMethods == 2
MethodLineVocabulary ==
  { <<" "," ","d","e","f"," ","r","u","n">>, <<" "," ","d","e","f"," ","s","e","l","f",".","r","u","n">>, <<" "," ","d","e","f"," ","s","e","l","f",".","m","a","k","e">>, <<" "," ","d","e","f"," ","g","o">>,
    <<" "," ","d","e","f"," ","s","e","l","f",".","g","o">> }
\* a class C with some methods, a variable of type C, and the line being
\* typed: `C.` or `v.`
StaticDocuments ==
  UNION { { << <<"c","l","a","s","s"," ","C">> >>
              \o [i \in 1..(2 * n) |-> IF i % 2 = 1 THEN defs[(i + 1) \div 2]
                                       ELSE <<" "," ","e","n","d">>]
              \o << <<"e","n","d">>, <<"v"," ","="," ","C",".","n","e","w">>, query >> :
              defs \in [1..n -> MethodLineVocabulary],
              query \in { <<"C",".">>, <<"v",".">> } } :
          n \in 1..MaxClassMethods }

InitStatic ==
  /\ \E d \in StaticDocuments :
       call = Request("complete", d,
                      [Line |-> Len(d) - 1, Character |-> 2], FALSE)
  /\ analyzer = NewCrystalAnalyzer
  /\ LexerOff /\ BalanceOff /\ RefsOff /\ ParserOff /\ ServerOff

NextStatic == Completion

SpecStatic == InitStatic /\ [][NextStatic]_vars

\* the names that the lines of a document define with `def self.` and with
\* a plain `def`
StaticNames(lines) ==
  { Slice(lines[i], 11, Len(lines[i])) :
      i \in { i \in 1..Len(lines) : HasPrefix(lines[i], <<" "," ","d","e","f"," ","s","e","l","f",".">>) } }
InstanceNames(lines) ==
  { Slice(lines[i], 6, Len(lines[i])) :
      i \in { i \in 1..Len(lines) : /\ HasPrefix(lines[i], <<" "," ","d","e","f"," ">>)
                                    /\ ~HasPrefix(lines[i], <<" "," ","d","e","f"," ","s","e","l","f",".">>) } }

\* C25: completion after `C.` returns the `def self.` methods of the class
\* and only them; completion after a variable of type C returns the instance
\* methods and the built-in ones, never a static one; also when a static and
\* an instance method have the same name.
C25_StaticAndInstance ==
  (call.op = "complete" /\ call.done) =>
     LET query == call.lines[Len(call.lines)]
     IN /\ query = <<"C",".">> => ReturnedLabels = StaticNames(call.lines)
        /\ query = <<"v",".">> =>
             ReturnedLabels = InstanceNames(call.lines)
                                \cup Range(getBuiltInMethodsForType(<<"C">>))

----------------------------------------------------------------------------
(* References against the occurrences of the word in the text *)

ReadLineVocabulary ==
  { <<"a"," ","="," ","a">>, <<"d","e","f"," ","a">>, <<"a"," ","b">>, <<"a","b"," ","a">> }
ReadDocuments == UNION {[1..n -> ReadLineVocabulary] : n \in 1..MaxRefLines}

InitReads ==
  /\ refs \in { [op |-> o[1], includeDeclaration |-> o[2], lines |-> d,
                 pos |-> [Line |-> l, Character |-> c], word |-> <<>>,
                 lineNum |-> 0, index |-> 0, locations |-> <<>>, pc |-> "call"] :
                o \in { <<"references", TRUE>>, <<"references", FALSE>>,
                        <<"documentHighlights", TRUE>> },
                d \in ReadDocuments, l \in 0..MaxRefLines, c \in 0..MaxRefChar }
  /\ LexerOff /\ BalanceOff /\ ParserOff /\ AnalyzerOff /\ ServerOff

SpecReads == InitReads /\ [][NextRefs]_vars

\* the whole-word occurrences of word in the document, as places
WholeWordOccurrences(lines, word) ==
  { p \in { [line |-> l, index |-> i] :
              l \in 0..(Len(lines) - 1), i \in 0..MaxRefChar } :
      /\ p.index + Len(word) <= Len(lines[p.line + 1])
      /\ hasPrefixAt(lines[p.line + 1], p.index, word)
      /\ isWholeWord(lines[p.line + 1], p.index, word) }

\* the occurrence is the name a class, def or module line declares, or the
\* left side of an assignment
IsTarget(lines, p, word) ==
  LET line == lines[p.line + 1]
      after == skipSpaces(line, p.index + Len(word))
  IN \/ /\ matchDeclarationOf(line, word)
        /\ \E kw \in { <<"c","l","a","s","s">>, <<"d","e","f">>, <<"m","o","d","u","l","e">> } :
             /\ hasPrefixAt(line, skipSpaces(line, 0), kw)
             /\ p.index = skipSpaces(line, skipSpaces(line, 0) + Len(kw))
     \/ after < Len(line) /\ At(line, after) = "="

\* the ranges GetDocumentHighlights returns for the word
HighlightRanges(lines, word) ==
  LET RECURSIVE run(_)
      run(r) == IF r.lineNum >= Len(lines)
                THEN [k \in 1..Len(r.locations) |-> r.locations[k].Range]
                ELSE run(highlightsIteration(r))
  IN run([op |-> "documentHighlights", lines |-> lines, word |-> word,
          lineNum |-> 0, index |-> 0, locations |-> <<>>])

\* C26: references with includeDeclaration returns exactly the whole-word
\* occurrences of the word under the cursor, each once, in document order,
\* with the ranges of documentHighlights; without it the same list less the
\* occurrences that are the declaration or the target of an assignment, and
\* never less an occurrence that is a read.
C26_ReferencesExact ==
  (refs.pc = "done" /\ refs.op = "references"
     /\ refs.pos.Line < Len(refs.lines)) =>
     LET all == WholeWordOccurrences(refs.lines, refs.word)
         expected == IF refs.includeDeclaration THEN all
                     ELSE { p \in all : ~IsTarget(refs.lines, p, refs.word) }
         found == refs.locations
     IN /\ { found[k].Range : k \in 1..Len(found) } =
             { WordRange(p.line, p.index, refs.word) : p \in expected }
        /\ \A k \in 1..(Len(found) - 1) :
             LET s == found[k].Range.Start
                 t == found[k + 1].Range.Start
             IN \/ s.Line < t.Line
                \/ s.Line = t.Line /\ s.Character < t.Character
        /\ refs.includeDeclaration =>
             [k \in 1..Len(found) |-> found[k].Range] =
               HighlightRanges(refs.lines, refs.word)

----------------------------------------------------------------------------
(* The priority order of definition *)

MaxDefinitionLines == 3
DefinitionLineVocabulary ==
  { <<"c","l","a","s","s"," ","a","b">>, <<" "," ","d","e","f"," ","c","d">>, <<"c","d"," ","="," ","1">>, <<"c","d">>, <<"a","b">>, <<" ">> }
DefinitionDocuments ==
  UNION { [1..n -> DefinitionLineVocabulary] : n \in 1..MaxDefinitionLines }

InitDefinition ==
  /\ \E d \in DefinitionDocuments :
     \E l \in 0..(Len(d) - 1) : \E c \in {0, 2} :
       call = Request("definition", d, [Line |-> l, Character |-> c], FALSE)
  /\ analyzer = NewCrystalAnalyzer
  /\ LexerOff /\ BalanceOff /\ RefsOff /\ ParserOff /\ ServerOff

NextDefinition == Definition

SpecDefinition == InitDefinition /\ [][NextDefinition]_vars

\* the lines that declare a class of the name, that define a method of the
\* name, and that assign to the name at or before the line n
ClassLines(lines, word) ==
  { i \in 0..(Len(lines) - 1) :
      MatchString(<<Bol, Star("s"), Lit(<<"c","l","a","s","s">>), Plus("s"), Lit(word),
                    WordB>>, lines[i + 1]) }
DefLines(lines, word) ==
  { i \in 0..(Len(lines) - 1) :
      MatchString(<<Bol, Star("s"), Lit(<<"d","e","f">>), Plus("s"), Lit(word),
                    WordB>>, lines[i + 1]) }
AssignLines(lines, word, n) ==
  { i \in 0..n : matchAssignmentOf(lines[i + 1], word) }

\* C27: definition resolves the word under the cursor by the first rule that
\* applies: the declaration of a class of that name, else a `def name` line,
\* else the nearest `name =` line at or before the cursor line; it returns
\* exactly one location for that rule, and the empty list when no rule
\* applies, in particular when there is no word under the cursor.
C27_DefinitionPriority ==
  (call.op = "definition" /\ call.done) =>
     LET lines == call.lines
         word == getWordAtPosition(lines[call.pos.Line + 1], call.pos.Character)
         found == call.result.value
         oneOn(S) == Len(found) = 1 /\ found[1].Range.Start.Line \in S
         assigned == AssignLines(lines, word, call.pos.Line)
     IN IF word = <<>> THEN found = <<>>
        ELSE IF ClassLines(lines, word) # {}
        THEN oneOn(ClassLines(lines, word))
        ELSE IF DefLines(lines, word) # {}
        THEN oneOn(DefLines(lines, word))
        ELSE IF assigned # {}
        THEN oneOn({ CHOOSE i \in assigned : \A j \in assigned : j <= i })
        ELSE found = <<>>

----------------------------------------------------------------------------
(* The ranges of the results lie inside the text *)

MaxRangeLines == 2
MaxRangeChar == 3
RangeLineVocabulary ==
  { <<"c","l","a","s","s"," ","a","b">>, <<" "," ","d","e","f"," ","f","(","1",")">>, <<"a","b"," ","="," ","\"">>, <<"i","f"," ","a","b">>, <<"e","n","d">>, <<"\t","c","d"," ">> }
RangeDocuments ==
  UNION { [1..n -> RangeLineVocabulary] : n \in 1..MaxRangeLines }
RangePositions ==
  { [Line |-> l, Character |-> c] :
      l \in 0..(MaxRangeLines - 1), c \in {0, MaxRangeChar} }

InitRanges ==
  /\ \E d \in RangeDocuments : \E pos \in RangePositions :
       \/ /\ \E op \in {"analyze", "definition", "documentSymbols",
                        "foldingRange", "formatting"} :
               call = Request(op, d, pos, FALSE)
          /\ RefsOff
       \/ /\ \E o \in { <<"references", TRUE>>, <<"references", FALSE>>,
                        <<"documentHighlights", TRUE>> } :
               refs = [op |-> o[1], includeDeclaration |-> o[2], lines |-> d,
                       pos |-> pos, word |-> <<>>, lineNum |-> 0, index |-> 0,
                       locations |-> <<>>, pc |-> "call"]
          /\ call = [op |-> "off"]
  /\ analyzer = NewCrystalAnalyzer
  /\ LexerOff /\ BalanceOff /\ ParserOff /\ ServerOff

NextRanges ==
  \/ AnalyzeDocument \/ Definition \/ DocumentSymbols \/ FoldingRange
  \/ Formatting
  \/ SearchEnter \/ ReferencesIterate \/ HighlightsIterate \/ SearchReturn

SpecRanges == InitRanges /\ [][NextRanges]_vars

\* the ranges of a result; a folding range is a range of whole lines
ResultRanges(op, value) ==
  { IF op = "documentSymbols" THEN value[k].Location.Range
    ELSE IF op = "foldingRange"
    THEN [Start |-> [Line |-> value[k].StartLine, Character |-> 0],
          End |-> [Line |-> value[k].EndLine, Character |-> 0]]
    ELSE value[k].Range : k \in 1..Len(value) }

InsideText(lines, range) ==
  /\ range.Start.Line >= 0 /\ range.Start.Character >= 0
  /\ range.Start.Line < Len(lines) /\ range.End.Line < Len(lines)
  /\ \/ range.Start.Line < range.End.Line
     \/ /\ range.Start.Line = range.End.Line
        /\ range.Start.Character <= range.End.Character
  /\ range.End.Character <= Len(lines[range.End.Line + 1])

\* C28: every range in a result of analyze, definition, references,
\* documentHighlights, documentSymbols, foldingRanges or formattingEdits lies
\* inside the text it was computed from: its lines are lines of the document,
\* its start is not after its end, and its end character is not beyond the
\* end of its line.
C28_RangesInsideText ==
  /\ (call.op # "off" /\ call.done) =>
       \A range \in ResultRanges(call.op, call.result.value) :
         InsideText(call.lines, range)
  /\ (refs.pc = "done") =>
       \A range \in ResultRanges(refs.op, refs.locations) :
         InsideText(refs.lines, range)

\* a returned search with an occurrence that ends its line, and a diagnostic
\* that reaches the end of the last line
C28_Witness ==
  \/ /\ refs.pc = "done"
     /\ \E k \in 1..Len(refs.locations) :
          LET range == refs.locations[k].Range
          IN range.End.Character = Len(refs.lines[range.End.Line + 1])
  \/ /\ call.op = "analyze" /\ call.done
     /\ \E k \in 1..Len(call.result.value) :
          LET range == call.result.value[k].Range
          IN /\ range.End.Line = Len(call.lines) - 1
             /\ range.End.Character = Len(call.lines[range.End.Line + 1])

----------------------------------------------------------------------------
(* What didOpen and didChange publish *)

\* the diagnostics of a text by itself, as a new analyzer computes them
DiagnosticsOfText(text) ==
  getDiagnostics(
    parseDocumentStructure(NewCrystalAnalyzer, Split(text, "\n")).context,
    Split(text, "\n"))

\* the server s holds the text under the version and has sent one
\* notification, the diagnostics of the text
StoredAndPublished(s, uri, text, version) ==
  /\ uri \in DOMAIN s.documents
  /\ s.documents[uri] = [Text |-> text, Version |-> version]
  /\ s.sent = << publishDiagnostics(uri, DiagnosticsOfText(text)) >>

\* C29: every didOpen, and every didChange for an open document, is followed
\* by exactly one publishDiagnostics notification for that URI, computed from
\* the text after all content changes of the notification were applied in
\* order, and the stored version is the version of the notification; a
\* didChange for a URI that is not open changes no stored document and
\* publishes nothing.
C29_NotificationsPublish ==
  [][LET message == server'.handling
     IN (/\ server.pc = "idle" /\ server' # server
         /\ message.method \in {"didOpen", "didChange"}) =>
          IF message.method = "didOpen"
          THEN StoredAndPublished(server', message.uri, message.params.text,
                                  message.params.version)
          ELSE IF message.uri \in DOMAIN server.documents
          THEN StoredAndPublished(
                 server', message.uri,
                 applyContentChanges(server.documents[message.uri].Text,
                                     message.params.changes),
                 message.params.version)
          ELSE /\ server'.documents = server.documents
               /\ server'.sent = <<>>]_vars

\* a didChange with two content changes on an open document has been handled,
\* and the second change has taken a character off the text of the first
C29_Witness ==
  /\ server.pc = "idle"
  /\ server.handling.method = "didChange"
  /\ Len(server.handling.params.changes) = 2
  /\ server.handling.uri \in DOMAIN server.documents
  /\ server.documents[server.handling.uri].Text = <<"b","\n">>
  /\ Len(server.sent) = 1
  /\ server.sent[1].method = "textDocument/publishDiagnostics"

----------------------------------------------------------------------------
(* applyTextChange and splitLines by themselves *)

ApplyTextChange ==
  /\ call.op = "applyTextChange" /\ ~call.done
  /\ call' = [call EXCEPT !.done = TRUE,
                !.result = Returned(applyTextChange(call.text, call.change))]
  /\ UNCHANGED analyzer
  /\ UNCHANGED exceptAnalyzer

SplitLines ==
  /\ call.op = "splitLines" /\ ~call.done
  /\ call' = [call EXCEPT !.done = TRUE,
                          !.result = Returned(splitLines(call.text))]
  /\ UNCHANGED analyzer
  /\ UNCHANGED exceptAnalyzer

MaxChangeTextLen == 4
ChangeAlphabet == { "a", "\n" }
ChangeTexts == UNION { [1..n -> ChangeAlphabet] : n \in 0..MaxChangeTextLen }
InsertedTexts == { <<>>, <<"x">>, <<"\n">> }

\* the offset of the start of line n of a text: 0, or one past its n-th
\* newline; and the length of that line
LineStartOffset(text, n) ==
  IF n = 0 THEN 0
  ELSE CHOOSE i \in 1..Len(text) :
         /\ text[i] = "\n"
         /\ Cardinality({ j \in 1..i : text[j] = "\n" }) = n
LineLength(text, n) ==
  LET from == LineStartOffset(text, n)
      rest == { i \in (from + 1)..Len(text) : text[i] = "\n" }
  IN IF rest = {} THEN Len(text) - from
     ELSE (CHOOSE i \in rest : \A j \in rest : i <= j) - 1 - from
\* the positions inside a text
PlacesInside(text) ==
  { p \in [Line : 0..MaxChangeTextLen, Character : 0..MaxChangeTextLen] :
      /\ p.Line <= Cardinality({ j \in 1..Len(text) : text[j] = "\n" })
      /\ p.Character <= LineLength(text, p.Line) }
OffsetOfPlace(text, p) == LineStartOffset(text, p.Line) + p.Character

ChangesInside(text) ==
  { RangeChange(r[1], r[2], t) :
      r \in { q \in PlacesInside(text) \X PlacesInside(text) :
                OffsetOfPlace(text, q[1]) <= OffsetOfPlace(text, q[2]) },
      t \in InsertedTexts }
    \cup { FullChange(t) : t \in InsertedTexts }

InitChange ==
  /\ \E text \in ChangeTexts :
       \/ \E change \in ChangesInside(text) :
            call = [op |-> "applyTextChange", text |-> text,
                    change |-> change, done |-> FALSE,
                    result |-> Returned(<<>>)]
       \/ call = [op |-> "splitLines", text |-> text, change |-> FullChange(<<>>),
                  done |-> FALSE, result |-> Returned(<<>>)]
  /\ analyzer = NewCrystalAnalyzer
  /\ LexerOff /\ BalanceOff /\ RefsOff /\ ParserOff /\ ServerOff

NextChange == ApplyTextChange \/ SplitLines

SpecChange == InitChange /\ [][NextChange]_vars

\* C30: for a change whose range lies inside the text, applyTextChange
\* returns the text before the start of the range, the text of the change,
\* and the text after the end of the range, also when the range lies on a
\* trailing empty last line, which splitLines does not return; a change
\* without a range replaces the whole text; and splitLines returns the
\* segments between the newlines of the text, in order.
C30_ApplyTextChange ==
  /\ (call.op = "applyTextChange" /\ call.done) =>
       IF call.change.Range = <<>>
       THEN call.result.value = call.change.Text
       ELSE call.result.value =
              SubSeq(call.text, 1,
                     OffsetOfPlace(call.text, call.change.Range[1].Start))
                \o call.change.Text
                \o SubSeq(call.text,
                          OffsetOfPlace(call.text, call.change.Range[1].End) + 1,
                          Len(call.text))
  /\ (call.op = "splitLines" /\ call.done) =>
       LET segments == call.result.value
       IN /\ \A k \in 1..Len(segments) :
               \A i \in 1..Len(segments[k]) : segments[k][i] # "\n"
          /\ \/ Join(segments, <<"\n">>) = call.text
             \/ Join(segments, <<"\n">>) \o <<"\n">> = call.text

\* a change on the trailing empty last line of a text has been applied
C30_Witness ==
  /\ call.op = "applyTextChange" /\ call.done
  /\ call.change.Range # <<>>
  /\ Len(call.text) > 1 /\ call.text[Len(call.text)] = "\n"
  /\ call.change.Range[1].Start.Line =
       Cardinality({ j \in 1..Len(call.text) : call.text[j] = "\n" })
  /\ call.change.Text # <<>>
====
